---- MODULE Spec2Model ----
(***************************************************************************)
(* Pool-based waterfall engine of the contact-center navigator:            *)
(* intent enrichment (engines/intent_profile.py), opportunity pools        *)
(* (engines/pools.py), lever-specific gross impact (engines/gross.py) and  *)
(* the netting cascade of run_waterfall (engines/waterfall.py).            *)
(*                                                                         *)
(* Number representation (Python floats become fixed-point integers):      *)
(*   fractions / rates      per-mille        (0.845  -> 845)               *)
(*   seconds inside queues  deci-seconds     (173.1  -> 1731)              *)
(*   FTE amounts            FU units per FTE (one tenth of an FTE = Tenth) *)
(*   unrounded FTE          1e-4 FTE ("x4")  before round(x, 1)            *)
(*   money                  whole currency units                           *)
(* round(x, n) is RoundDiv, ties to even.                                  *)
(***************************************************************************)
EXTENDS Integers, Sequences, FiniteSets, TLC

\* ------------------------------------------------------------------ bounds
MaxInits == 3   \* longest initiative list handed to run_waterfall
MaxRuns  == 2   \* successive run_waterfall invocations on the same list
MaxTopInits == 2   \* longest initiative list of a top-level call with sub-runs
MaxDepth == 2   \* deepest nesting of run_waterfall invocations explored
MaxRamp == 12   \* longest ramp_months handed to _s_curve_ramp on its own
MaxHorizon == 3 \* longest horizon_years handed to _compute_yearly_factors on its own
MaxInvest == 3  \* longest initiative list handed to the investment sizing on its own
MaxFlows == 3   \* longest cashflow list handed to _estimate_irr
MaxCalls == 3   \* direct consume_pool calls in the pool-only specification

\* FTE fixed point: hundredths of an FTE split pro-rata over the roster
\* (shares 1/4 and 3/4) stay exact for MaxInits + 1 successive splits.
FU    == 100 * (4 ^ (MaxInits + 1))
Tenth == FU \div 10
Hundredth == FU \div 100

\* ----------------------------------------------------------------- helpers
Min(a, b) == IF a <= b THEN a ELSE b
Max(a, b) == IF a >= b THEN a ELSE b
Min3(a, b, c) == Min(a, Min(b, c))

\* round(a / b) to the nearest integer, ties to even (b > 0, a >= 0)
RoundDiv(a, b) ==
    LET q == a \div b
        r == a % b
    IN  IF 2 * r < b THEN q
        ELSE IF 2 * r > b THEN q + 1
        ELSE IF q % 2 = 0 THEN q ELSE q + 1

\* floor(a * b / c) without forming a * b  (a >= 0, 0 <= b, c > 0, c * b < 2^31)
MulDiv(a, b, c) == (a \div c) * b + ((a % c) * b) \div c

\* round(x, 1) of an unrounded FTE amount given in 1e-4 FTE, result in FU
Round1(x4) == RoundDiv(x4, 1000) * Tenth

\* round(x, 1) of an FTE amount given in FU, result in FU
Round1FU(x) == RoundDiv(x, Tenth) * Tenth

RECURSIVE SumSeq(_)
SumSeq(s) == IF s = << >> THEN 0 ELSE Head(s) + SumSeq(Tail(s))

RECURSIVE SumOver(_, _)
\* sum of f[x] over x in the finite set S
SumOver(f, S) ==
    IF S = {} THEN 0
    ELSE LET x == CHOOSE y \in S : TRUE IN f[x] + SumOver(f, S \ {x})

Range(s) == { s[i] : i \in 1..Len(s) }

\* ------------------------------------------------------------ program constants
ABSOLUTE_SINGLE_INIT_CAP == 200     \* 0.20, per-mille
PER_ROLE_MAX_REDUCTION   == 450     \* 0.45, per-mille
DEFAULT_TYPE_CAP         == 120     \* INITIATIVE_FTE_CAPS.get(lever, 0.12)
REPEAT_FLOOR             == 20      \* 0.02, per-mille

INITIATIVE_FTE_CAPS ==
    [deflection |-> 180, aht_reduction |-> 120, escalation_reduction |-> 100,
     repeat_reduction |-> 120, shrinkage_reduction |-> 100, cost_reduction |-> 150]

LEVER_ORDER == <<"deflection", "aht_reduction", "repeat_reduction", "transfer_reduction",
                 "escalation_reduction", "shrinkage_reduction", "cost_reduction">>

\* lever_order_map.get(lever, 9), zero-based as enumerate() numbers them
lever_order_map(lever) ==
    IF \E i \in 1..Len(LEVER_ORDER) : LEVER_ORDER[i] = lever
    THEN (CHOOSE i \in 1..Len(LEVER_ORDER) : LEVER_ORDER[i] = lever) - 1
    ELSE 9

\* layer_order.get(layer, 9)
layer_order(layer) ==
    CASE layer = "AI & Automation" -> 0
      [] layer = "Operating Model" -> 1
      [] layer = "Location Strategy" -> 2
      [] OTHER -> 9

\* consume_pool: lever_pool_map.get(lever, lever); the slip sends a lever the
\* map does not know to the pool of the default lever
lever_pool_map_default(lever) ==
    IF lever = "cost_reduction" THEN "location"
    ELSE IF \E i \in 1..Len(LEVER_ORDER) : LEVER_ORDER[i] = lever THEN lever
    ELSE "aht_reduction"
lever_pool_map(lever) == IF lever = "cost_reduction" THEN "location" ELSE lever

\* compute_pools: roles that can be migrated to a lower-cost location
migratable_roles == {"Agent L1", "Agent L2 / Specialist", "Back-Office / Processing"}


\* ------------------------------------------------------------- input data
\* Role roster (data['roles']): read-only during a run.
Roles == <<[role |-> "Agent L1", headcount |-> 6, costPerFTE |-> 100],
           [role |-> "Supervisor / Team Lead", headcount |-> 2, costPerFTE |-> 200]>>

RoleNames == { Roles[i].role : i \in 1..Len(Roles) }

\* Raw queue records (data['queues']).  aht / acw are in seconds (the source
\* stores minutes and multiplies by 60), rates per-mille.  emotion_kw and
\* auth_kw record which keyword list of the enrichment the intent name hits.
Queues == <<[intent |-> "Order status", channel |-> "Voice", volume |-> 20000,
             aht |-> 360, acw |-> 60, fcr |-> 700, transfer |-> 200,
             escalation |-> 100, repeat |-> 100, complexity |-> 200,
             emotion_kw |-> "none", auth_kw |-> "none"],
            [intent |-> "Returns", channel |-> "Chat", volume |-> 10000,
             aht |-> 360, acw |-> 60, fcr |-> 700, transfer |-> 200,
             escalation |-> 100, repeat |-> 100, complexity |-> 600,
             emotion_kw |-> "none", auth_kw |-> "none"]>>

\* data['params'] apart from volumeAnnualizationFactor, which Init chooses
BaseParams == [horizon |-> 2, shrinkage |-> 250, targetShrinkage |-> 200,
               grossHoursPerYear |-> 2000, locationArbitrage |-> 500,
               wageInflation |-> 0, discountRate |-> 100]

AnnualizationFactors == {4, 12}

\* ------------------------------------------------------ intent enrichment
_repeatability_from_complexity(complexity) ==
    IF complexity <= 200 THEN 850
    ELSE IF complexity <= 350 THEN 650
    ELSE IF complexity <= 500 THEN 450
    ELSE IF complexity <= 700 THEN 250
    ELSE 100

_emotional_risk_from_complexity(complexity, emotion_kw) ==
    IF emotion_kw = "high" THEN 850
    ELSE IF emotion_kw = "medium" THEN 600
    ELSE IF complexity <= 250 THEN 100
    ELSE IF complexity <= 450 THEN 250
    ELSE IF complexity <= 650 THEN 450
    ELSE 650

_auth_required_from_complexity(complexity, auth_kw) ==
    IF auth_kw = "no_auth" THEN 100
    ELSE IF auth_kw = "high_auth" THEN 900
    ELSE IF complexity <= 250 THEN 200
    ELSE IF complexity <= 500 THEN 500
    ELSE 750

_containment_feasibility(repeatability, emotional_risk, auth_required, complexity) ==
    LET base100 == repeatability * 40 + (1000 - emotional_risk) * 25
                   + (1000 - auth_required) * 25 + (1000 - complexity) * 10
    IN  IF auth_required > 800
        THEN RoundDiv(Min(200000, Max(0, base100)), 200)
        ELSE RoundDiv(Min(100000, Max(0, base100)), 100)

\* seconds are returned in deci-seconds (round(x, 1))
_decompose_aht(aht_sec, acw_sec, complexity) ==
    LET pct == IF complexity <= 250 THEN [talk |-> 55, hold |-> 5, search |-> 25]
               ELSE IF complexity <= 500 THEN [talk |-> 55, hold |-> 10, search |-> 20]
               ELSE IF complexity <= 700 THEN [talk |-> 55, hold |-> 15, search |-> 18]
               ELSE [talk |-> 50, hold |-> 20, search |-> 15]
        other == Max(0, 100 - pct.talk - pct.hold - pct.search)
        \* reducible, in 1e-4 seconds: search + 0.80 wrap + 0.15 talk + 0.30 hold
        red4 == aht_sec * pct.search * 100 + acw_sec * 8000
                + aht_sec * pct.talk * 15 + aht_sec * pct.hold * 30
    IN  [talk_sec   |-> RoundDiv(aht_sec * pct.talk, 10),
         hold_sec   |-> RoundDiv(aht_sec * pct.hold, 10),
         search_sec |-> RoundDiv(aht_sec * pct.search, 10),
         other_sec  |-> RoundDiv(aht_sec * other, 10),
         wrap_sec   |-> acw_sec * 10,
         reducible_sec |-> RoundDiv(red4, 1000)]

\* rates are returned in 1e-4 (round(x, 4)), the share per-mille
_transfer_classification(transfer_rate, escalation_rate, complexity) ==
    IF transfer_rate <= 0
    THEN [total_rate |-> 0, preventable_rate |-> 0, structural_rate |-> 0,
          preventable_share |-> 0]
    ELSE LET share0 == IF complexity <= 300 THEN 750
                       ELSE IF complexity <= 550 THEN 500
                       ELSE IF complexity <= 750 THEN 300
                       ELSE 150
             share  == IF escalation_rate > 150 THEN (share0 * 7) \div 10 ELSE share0
         IN  [total_rate |-> transfer_rate * 10,
              preventable_rate |-> RoundDiv(transfer_rate * share, 100),
              structural_rate  |-> RoundDiv(transfer_rate * (1000 - share), 100),
              preventable_share |-> share]

_migration_readiness(channel, complexity, emotional_risk, auth_required) ==
    IF channel \in {"Chat", "Email", "App/Self-Service", "SMS/WhatsApp", "Social Media"}
    THEN 0
    ELSE IF channel = "IVR" THEN RoundDiv(200 * (1000 - complexity), 1000)
    ELSE LET base100 == 80000 - complexity * 30 - emotional_risk * 25 - auth_required * 15
         IN  RoundDiv(Max(0, Min(100000, base100)), 100)

\* enrich_intents for one queue: the raw fields are kept, the profile added
enrich_queue(q) ==
    LET rep0 == _repeatability_from_complexity(q.complexity)
        repeatability  == IF q.repeat > 150 THEN Min(1000, rep0 + 150) ELSE rep0
        emotional_risk == _emotional_risk_from_complexity(q.complexity, q.emotion_kw)
        auth_required  == _auth_required_from_complexity(q.complexity, q.auth_kw)
    IN  [intent |-> q.intent, channel |-> q.channel, volume |-> q.volume,
         aht |-> q.aht, acw |-> q.acw, fcr |-> q.fcr, transfer |-> q.transfer,
         escalation |-> q.escalation, repeat |-> q.repeat, complexity |-> q.complexity,
         repeatability |-> repeatability,
         emotional_risk |-> emotional_risk,
         auth_required |-> auth_required,
         containment_feasibility |->
             _containment_feasibility(repeatability, emotional_risk, auth_required, q.complexity),
         deflection_eligible_pct |->
             RoundDiv(repeatability * (10000 - 3 * auth_required), 10000),
         aht_decomp |-> _decompose_aht(q.aht, q.acw, q.complexity),
         transfer_class |-> _transfer_classification(q.transfer, q.escalation, q.complexity),
         migration_readiness |->
             _migration_readiness(q.channel, q.complexity, emotional_risk, auth_required)]

enrich_intents(queues) == [i \in 1..Len(queues) |-> enrich_queue(queues[i])]

\* ------------------------------------------------------- opportunity pools
SeqIdx(s) == 1..Len(s)

\* sum(r['headcount'] for r in roles if r['role'] in names)
Headcount(roles, names) ==
    SumOver([i \in SeqIdx(roles) |-> IF roles[i].role \in names THEN roles[i].headcount ELSE 0],
            SeqIdx(roles))

\* sum(r['headcount'] * r['costPerFTE'] for r in roles if r['role'] in names)
CostSum(roles, names) ==
    SumOver([i \in SeqIdx(roles) |->
                IF roles[i].role \in names THEN roles[i].headcount * roles[i].costPerFTE ELSE 0],
            SeqIdx(roles))

AllRoleNames(roles) == { roles[i].role : i \in SeqIdx(roles) }

\* net productive hours per FTE and year: gross_hours_year * (1 - shrinkage)
NetProdHours(params) == (params.grossHoursPerYear * (1000 - params.shrinkage)) \div 1000

\* hours (in 1e-3 h) -> FTE (in 1e-4 FTE): hours / max(net_prod_hours, 1)
HoursToFte4(hours_milli, params) == MulDiv(hours_milli, 10, Max(NetProdHours(params), 1))

\* round(fte * cost) for an unrounded FTE (1e-4) and a cost given as num / den
Saving(fte4, cost_num, cost_den) ==
    RoundDiv(MulDiv(fte4, cost_num, cost_den), 10000)

\* volume-weighted average handle time in seconds over queues with volume vol[i]
AvgAhtSec(queues, vol) ==
    LET tot == SumOver(vol, SeqIdx(queues))
    IN  RoundDiv(SumOver([i \in SeqIdx(queues) |-> queues[i].aht * vol[i]], SeqIdx(queues)),
                 Max(tot, 1))

\* preventable escalation share: max(0.10, 0.60 - complexity * 0.50), per-mille
PrevEscShare(complexity) == Max(100, 600 - complexity \div 2)

\* The repeat-rate floor shared by the repeat pool and the repeat gross:
\* below REPEAT_FLOOR the rate max(0.05, (1 - weighted_fcr) * 0.60) replaces
\* every queue's own rate.  Result per-mille.
RepeatRates(queues, vol) ==
    LET idx == SeqIdx(queues)
        tot == SumOver(vol, idx)
        rep_sum == SumOver([i \in idx |-> queues[i].repeat * vol[i]], idx)
        use_fallback == rep_sum < REPEAT_FLOOR * Max(tot, 1)
        fcr_sum == SumOver([i \in idx |-> queues[i].fcr * (vol[i] \div 100)], idx)
        weighted_fcr == RoundDiv(fcr_sum, Max(tot \div 100, 1))
        fallback_repeat == Max(50, RoundDiv((1000 - weighted_fcr) * 6, 10))
    IN  [i \in idx |-> IF use_fallback THEN fallback_repeat ELSE queues[i].repeat]

\* A queue that was not enriched lacks the profile keys; Missing stands for
\* an absent key and get(x, default) for q.get(key, default).
Missing == 0 - 2
get(x, default) == IF x = Missing THEN default ELSE x

\* achievable = q['annual_volume'] * eligible_pct * containment, contacts in 1e-3
achievable(q, annual_volume) ==
    MulDiv(annual_volume * get(q.deflection_eligible_pct, 0),
           get(q.containment_feasibility, 0), 1000)

compute_pools(enriched_queues, roles, params) ==
    LET idx == SeqIdx(enriched_queues)
        annualization == params.volumeAnnualizationFactor
        annual_volume == [i \in idx |-> enriched_queues[i].volume * annualization]
        total_volume  == SumOver(annual_volume, idx)
        total_fte     == Headcount(roles, AllRoleNames(roles))
        \* weighted_cost = cost_num / cost_den
        cost_num == IF total_fte > 0 THEN CostSum(roles, AllRoleNames(roles)) ELSE 55000
        cost_den == IF total_fte > 0 THEN total_fte ELSE 1
        avg_aht_sec == AvgAhtSec(enriched_queues, annual_volume)
        \* 1. deflection: contacts in 1e-3
        deflectable_contacts ==
            SumOver([i \in idx |-> achievable(enriched_queues[i], annual_volume[i])], idx)
        deflection_fte == HoursToFte4(MulDiv(deflectable_contacts, avg_aht_sec, 3600), params)
        \* 2. AHT reduction: seconds in 1e-1
        total_reducible_seconds ==
            SumOver([i \in idx |->
                        annual_volume[i] * get(enriched_queues[i].aht_decomp.reducible_sec, 0)],
                    idx)
        aht_fte == HoursToFte4(MulDiv(total_reducible_seconds, 100, 3600), params)
        \* 3. transfers (1e-4 events, 180 s each) and escalations (1e-3 events, 300 s each)
        total_preventable_transfers ==
            SumOver([i \in idx |->
                        annual_volume[i]
                            * get(enriched_queues[i].transfer_class.preventable_rate, 0)],
                    idx)
        transfer_fte == HoursToFte4(MulDiv(total_preventable_transfers, 180, 36000), params)
        total_preventable_escalations ==
            SumOver([i \in idx |->
                        MulDiv(annual_volume[i] * enriched_queues[i].escalation,
                               PrevEscShare(enriched_queues[i].complexity), 1000)], idx)
        esc_fte == HoursToFte4(MulDiv(total_preventable_escalations, 300, 3600), params)
        \* 4. repeat contacts (1e-3), at most 70% of a queue's repeats
        rate == RepeatRates(enriched_queues, annual_volume)
        reducible_repeat ==
            [i \in idx |->
                LET fcr_target == 900 - (enriched_queues[i].complexity * 15) \div 100
                    fcr_gap    == Max(0, fcr_target - enriched_queues[i].fcr)
                    repeats    == annual_volume[i] * rate[i]
                    closable   == IF fcr_gap >= Max(rate[i], 10) THEN repeats
                                  ELSE MulDiv(repeats, fcr_gap, Max(rate[i], 10))
                IN  Min(closable, MulDiv(repeats, 7, 10))]
        total_repeat_contacts == SumOver(reducible_repeat, idx)
        repeat_fte == HoursToFte4(MulDiv(total_repeat_contacts, avg_aht_sec, 3600), params)
        \* 5. location: migratable FTE scaled by the migratable volume share
        migratable_volume ==
            SumOver([i \in idx |->
                        annual_volume[i] * get(enriched_queues[i].migration_readiness, 0)],
                    idx)
        migratable_fte == Headcount(roles, migratable_roles)
        migratable_fte_adjusted ==
            MulDiv(migratable_volume, migratable_fte * 10, Max(total_volume, 1))
        location_saving ==
            RoundDiv(MulDiv(MulDiv(migratable_fte_adjusted, cost_num, cost_den),
                            params.locationArbitrage, 1000), 10000)
        \* 6. shrinkage: total_fte x max(0, current - target)
        shrinkage_gap == Max(0, params.shrinkage - params.targetShrinkage)
        shrinkage_fte == total_fte * shrinkage_gap * 10
        pools ==
            [deflection |->
                [ceiling_contacts |-> RoundDiv(deflectable_contacts, 1000),
                 ceiling_fte |-> Round1(deflection_fte),
                 ceiling_saving |-> Saving(deflection_fte, cost_num, cost_den),
                 remaining_contacts |-> RoundDiv(deflectable_contacts, 1000),
                 remaining_fte |-> Round1(deflection_fte)],
             aht_reduction |->
                [ceiling_seconds |-> RoundDiv(total_reducible_seconds, 10),
                 ceiling_fte |-> Round1(aht_fte),
                 ceiling_saving |-> Saving(aht_fte, cost_num, cost_den),
                 remaining_seconds |-> RoundDiv(total_reducible_seconds, 10),
                 remaining_fte |-> Round1(aht_fte)],
             transfer_reduction |->
                [ceiling_contacts |-> RoundDiv(total_preventable_transfers, 10000),
                 ceiling_fte |-> Round1(transfer_fte),
                 ceiling_saving |-> Saving(transfer_fte, cost_num, cost_den),
                 remaining_contacts |-> RoundDiv(total_preventable_transfers, 10000),
                 remaining_fte |-> Round1(transfer_fte)],
             escalation_reduction |->
                [ceiling_contacts |-> RoundDiv(total_preventable_escalations, 1000),
                 ceiling_fte |-> Round1(esc_fte),
                 ceiling_saving |-> Saving(esc_fte, cost_num, cost_den),
                 remaining_contacts |-> RoundDiv(total_preventable_escalations, 1000),
                 remaining_fte |-> Round1(esc_fte)],
             repeat_reduction |->
                [ceiling_contacts |-> RoundDiv(total_repeat_contacts, 1000),
                 ceiling_fte |-> Round1(repeat_fte),
                 ceiling_saving |-> Saving(repeat_fte, cost_num, cost_den),
                 remaining_contacts |-> RoundDiv(total_repeat_contacts, 1000),
                 remaining_fte |-> Round1(repeat_fte)],
             location |->
                [ceiling_fte |-> Round1(migratable_fte_adjusted),
                 ceiling_saving |-> location_saving,
                 remaining_fte |-> Round1(migratable_fte_adjusted),
                 remaining_saving |-> location_saving],
             shrinkage_reduction |->
                [ceiling_fte |-> Round1(shrinkage_fte),
                 ceiling_saving |-> Saving(shrinkage_fte, cost_num, cost_den),
                 remaining_fte |-> Round1(shrinkage_fte),
                 remaining_saving |-> Saving(shrinkage_fte, cost_num, cost_den)]]
    IN  [pools |-> pools, annualization_factor |-> annualization]

\* ------------------------------------------------------- pool consumption
\* round(x - a * b / c) for integers x, a >= 0, 0 <= b, c > 0 (ties to even)
SubRound(x, a, b, c) ==
    LET q == MulDiv(a, b, c)
        r == ((a % c) * b) % c
        n == x - q - 1
    IN  IF r = 0 THEN x - q
        ELSE IF 2 * (c - r) > c THEN n + 1
        ELSE IF 2 * (c - r) < c THEN n
        ELSE IF n % 2 = 0 THEN n ELSE n + 1

\* round(a * b / c)
RoundMulDiv(a, b, c) == 0 - SubRound(0, a, b, c)

\* actual_fte = min(amount_fte, remaining_fte), and two slips of it: the
\* request granted in full, and the whole remainder granted
actual_fte_uncapped(amount_fte, remaining_fte) == amount_fte
actual_fte_remainder(amount_fte, remaining_fte) == remaining_fte
actual_fte_of(amount_fte, remaining_fte) == Min(amount_fte, remaining_fte)

\* max(0, round(remaining - amount * num / den)), and the slip without max(0, .)
deduct_unclamped(remaining, amount, num, den) == SubRound(remaining, amount, num, den)
deduct(remaining, amount, num, den) == Max(0, SubRound(remaining, amount, num, den))

\* pool['remaining_fte'] = round(remaining_fte - actual_fte, 1), and the slip
\* that leaves the pool as it was
debit_fte_none(remaining_fte, actual_fte) == remaining_fte
debit_fte(remaining_fte, actual_fte) == Round1FU(remaining_fte - actual_fte)

\* consume_pool(pools, lever, amount_fte, amount_contacts, amount_seconds):
\* the pools after the call and the dict it returns.  amount_fte is in FU and
\* a multiple of Hundredth; "missing" marks a key the returned dict lacks.
consume_pool(pools, lever, amount_fte, amount_contacts, amount_seconds) ==
    LET pool_key == lever_pool_map(lever)
    IN  IF pool_key \notin DOMAIN pools
        THEN \* unknown lever: fail closed
             [pools |-> pools, consumed_fte |-> 0, capped |-> TRUE,
              pool_exhausted |-> FALSE, unknown_lever |-> TRUE]
        ELSE
        LET pool == pools[pool_key]
            remaining_fte == pool.remaining_fte
        IN  IF remaining_fte <= 0
            THEN [pools |-> pools, consumed_fte |-> 0, capped |-> TRUE,
                  pool_exhausted |-> TRUE, unknown_lever |-> FALSE]
            ELSE
            LET actual_fte == actual_fte_of(amount_fte, remaining_fte)
                \* cap_ratio = actual_fte / max(amount_fte, 0.001) = ratio_num / ratio_den
                ratio_num == IF amount_fte = 0 THEN 0 ELSE actual_fte \div Hundredth
                ratio_den == IF amount_fte = 0 THEN 1 ELSE amount_fte \div Hundredth
                new_fte == debit_fte(remaining_fte, actual_fte)
                p1 == [pool EXCEPT !.remaining_fte = new_fte]
                p2 == IF "remaining_contacts" \in DOMAIN pool /\ amount_contacts > 0
                      THEN [p1 EXCEPT !.remaining_contacts =
                               deduct(pool.remaining_contacts, amount_contacts,
                                      ratio_num, ratio_den)]
                      ELSE p1
                p3 == IF "remaining_seconds" \in DOMAIN pool /\ amount_seconds > 0
                      THEN [p2 EXCEPT !.remaining_seconds =
                               deduct(pool.remaining_seconds, amount_seconds,
                                      ratio_num, ratio_den)]
                      ELSE p2
                p4 == IF "remaining_saving" \in DOMAIN pool
                      THEN [p3 EXCEPT !.remaining_saving =
                               deduct(pool.remaining_saving, pool.ceiling_saving,
                                      actual_fte \div Hundredth,
                                      Max(pool.ceiling_fte \div Hundredth, 10))]
                      ELSE p3
            IN  [pools |-> [pools EXCEPT ![pool_key] = p4],
                 consumed_fte |-> Round1FU(actual_fte),
                 capped |-> 100 * ratio_num < 95 * ratio_den,
                 pool_exhausted |-> new_fte <= 5 * Tenth,
                 unknown_lever |-> FALSE]

\* ------------------------------------------------------------ gross impact
\* x * impact * adoption for per-mille impact and adoption
Scaled(x, impact, adoption) == MulDiv(MulDiv(x, impact, 1000), adoption, 1000)

GrossResult(fte4, contacts, seconds, saving) ==
    [gross_fte |-> Round1(fte4), gross_contacts |-> contacts, gross_seconds |-> seconds,
     gross_saving |-> saving, gross_fte_migrated |-> 0, is_location |-> FALSE]

\* contacts_deflected = q['volume'] * effective_rate with
\* effective_rate = eligible_pct * impact * adoption: no containment cap
contacts_deflected_uncapped(q, impact, adoption) ==
    MulDiv(MulDiv(q.volume * get(q.deflection_eligible_pct, 0), impact, 1000),
           adoption, 1000)

\* contacts_deflected = q['volume'] * effective_rate (contacts in 1e-3) with
\* effective_rate = eligible_pct * min(impact, containment) * adoption
contacts_deflected(q, impact, adoption) ==
    MulDiv(MulDiv(q.volume * get(q.deflection_eligible_pct, 0),
                  Min(impact, get(q.containment_feasibility, 0)), 1000),
           adoption, 1000)

_gross_deflection(queues, cost_num, cost_den, impact, adoption, params) ==
    LET idx == SeqIdx(queues)
        vol == [i \in idx |-> queues[i].volume]
        total_deflectable ==
            SumOver([i \in idx |-> contacts_deflected(queues[i], impact, adoption)], idx)
        gross_fte == HoursToFte4(MulDiv(total_deflectable, AvgAhtSec(queues, vol), 3600), params)
    IN  GrossResult(gross_fte, RoundDiv(total_deflectable, 1000), 0,
                    Saving(gross_fte, cost_num, cost_den))

_gross_aht_reduction(queues, cost_num, cost_den, impact, adoption, params) ==
    LET idx == SeqIdx(queues)
        total_seconds_saved ==
            SumOver([i \in idx |->
                        \* decomp.get('reducible_sec', q['aht'] * 60 * 0.35), in 1e-1 s
                        Scaled(queues[i].volume
                                   * get(queues[i].aht_decomp.reducible_sec,
                                         (queues[i].aht * 7) \div 2),
                               impact, adoption)], idx)
        gross_fte == HoursToFte4(MulDiv(total_seconds_saved, 100, 3600), params)
    IN  GrossResult(gross_fte, 0, RoundDiv(total_seconds_saved, 10),
                    Saving(gross_fte, cost_num, cost_den))

_gross_escalation(queues, cost_num, cost_den, impact, adoption, params) ==
    LET idx == SeqIdx(queues)
        total_prevented ==
            SumOver([i \in idx |->
                        Scaled(MulDiv(queues[i].volume * queues[i].escalation,
                                      PrevEscShare(queues[i].complexity), 1000),
                               impact, adoption)], idx)
        \* 900 s of handling avoided per prevented escalation
        gross_fte == HoursToFte4(MulDiv(total_prevented, 900, 3600), params)
    IN  GrossResult(gross_fte, RoundDiv(total_prevented, 1000), 0,
                    Saving(gross_fte, cost_num, cost_den))

_gross_transfer(queues, cost_num, cost_den, impact, adoption, params) ==
    LET idx == SeqIdx(queues)
        total_prevented ==
            SumOver([i \in idx |->
                        Scaled(MulDiv(queues[i].volume * queues[i].transfer,
                                      Max(150, 550 - (queues[i].complexity * 2) \div 5), 1000),
                               impact, adoption)], idx)
        \* 180 s of handling avoided per prevented transfer
        gross_fte == HoursToFte4(MulDiv(total_prevented, 180, 3600), params)
    IN  GrossResult(gross_fte, RoundDiv(total_prevented, 1000), 0,
                    Saving(gross_fte, cost_num, cost_den))

_gross_repeat(queues, cost_num, cost_den, impact, adoption, params) ==
    LET idx == SeqIdx(queues)
        vol == [i \in idx |-> queues[i].volume]
        rate == RepeatRates(queues, vol)
        total_eliminated ==
            SumOver([i \in idx |->
                        Min(Scaled(vol[i] * rate[i], impact, adoption),
                            MulDiv(vol[i] * rate[i], 7, 10))], idx)
        gross_fte == HoursToFte4(MulDiv(total_eliminated, AvgAhtSec(queues, vol), 3600), params)
    IN  GrossResult(gross_fte, RoundDiv(total_eliminated, 1000), 0,
                    Saving(gross_fte, cost_num, cost_den))

_gross_location(queues, affected_fte, cost_num, cost_den, impact, adoption, params) ==
    LET idx == SeqIdx(queues)
        total_vol == SumOver([i \in idx |-> queues[i].volume], idx)
        migratable_vol ==
            SumOver([i \in idx |-> queues[i].volume * get(queues[i].migration_readiness, 0)],
                    idx)
        \* affected_fte * migratable_share * impact * adoption, in 1e-4 FTE
        fte_migrated ==
            IF total_vol > 0
            THEN MulDiv(Scaled(migratable_vol, impact, adoption), affected_fte * 10, total_vol)
            ELSE 0
        saving == RoundDiv(MulDiv(MulDiv(fte_migrated, cost_num, cost_den),
                                  params.locationArbitrage, 1000), 10000)
    IN  [gross_fte |-> 0, gross_contacts |-> 0, gross_seconds |-> 0,
         gross_saving |-> saving, gross_fte_migrated |-> Round1(fte_migrated),
         is_location |-> TRUE]

_gross_shrinkage(affected_fte, cost_num, cost_den, impact, adoption, params) ==
    LET \* per-mille^3
        wanted == params.shrinkage * impact * adoption
        max_reduction == Max(0, params.shrinkage - params.targetShrinkage) * 1000000
        shrinkage_reduction == Min(wanted, max_reduction)
        fte_freed == (affected_fte * shrinkage_reduction) \div 100000
    IN  GrossResult(fte_freed, 0, 0, Saving(fte_freed, cost_num, cost_den))

_gross_generic(affected_fte, cost_num, cost_den, impact, adoption) ==
    LET raw_fte == (affected_fte * impact * adoption * 75) \div 10000
    IN  GrossResult(raw_fte, 0, 0, Saving(raw_fte, cost_num, cost_den))

\* set(initiative['channels']) raises TypeError when the list holds an
\* unhashable entry (a nested list placed by a field override); init.channels_ok
\* is FALSE for such a list.
gross_raises(init) == ~init.channels_ok

\* compute_gross_impact(initiative, annual_queues, roles, pool_result, params);
\* only evaluated when it does not raise.
compute_gross_impact(init, enriched_queues, roles, params) ==
    LET matching == SelectSeq(enriched_queues, LAMBDA q : q.channel \in init.channels)
        matching_queues == IF matching = << >> THEN enriched_queues ELSE matching
        affected_fte == Headcount(roles, init.roles)
        cost_num == IF affected_fte > 0 THEN CostSum(roles, init.roles) ELSE 55000
        cost_den == IF affected_fte > 0 THEN affected_fte ELSE 1
        lever == init.lever
    IN  CASE lever = "deflection" ->
               _gross_deflection(matching_queues, cost_num, cost_den,
                                 init.impact, init.adoption, params)
          [] lever = "aht_reduction" ->
               _gross_aht_reduction(matching_queues, cost_num, cost_den,
                                    init.impact, init.adoption, params)
          [] lever = "escalation_reduction" ->
               _gross_escalation(matching_queues, cost_num, cost_den,
                                 init.impact, init.adoption, params)
          [] lever = "repeat_reduction" ->
               _gross_repeat(matching_queues, cost_num, cost_den,
                             init.impact, init.adoption, params)
          [] lever = "transfer_reduction" ->
               _gross_transfer(matching_queues, cost_num, cost_den,
                               init.impact, init.adoption, params)
          [] lever = "cost_reduction" ->
               _gross_location(matching_queues, affected_fte, cost_num, cost_den,
                               init.impact, init.adoption, params)
          [] lever = "shrinkage_reduction" ->
               _gross_shrinkage(affected_fte, cost_num, cost_den,
                                init.impact, init.adoption, params)
          [] OTHER ->
               _gross_generic(affected_fte, cost_num, cost_den, init.impact, init.adoption)

\* the except-branch without its 50% haircut
fallback_gross_full(init, roles) ==
    LET tot_aff == Headcount(roles, init.roles)
        gross_fte == (tot_aff * init.impact * init.adoption * 100) \div 10000
    IN  [gross_fte |-> Round1(gross_fte), gross_contacts |-> 0, gross_seconds |-> 0,
         gross_saving |-> Saving(gross_fte, CostSum(roles, init.roles), Max(tot_aff, 1)),
         gross_fte_migrated |-> 0, is_location |-> FALSE]

\* run_waterfall's except-branch: tot_aff * impact * adoption * 0.50
fallback_gross(init, roles) ==
    LET tot_aff == Headcount(roles, init.roles)
        gross_fte == (tot_aff * init.impact * init.adoption * 50) \div 10000
    IN  [gross_fte |-> Round1(gross_fte), gross_contacts |-> 0, gross_seconds |-> 0,
         gross_saving |-> Saving(gross_fte, CostSum(roles, init.roles), Max(tot_aff, 1)),
         gross_fte_migrated |-> 0, is_location |-> FALSE]

\* ------------------------------------------------------- monthly phasing
\* _s_curve_ramp(t, ramp_months) for 0 < t < ramp_months, in 1e-6: the
\* rescaled logistic 1/(1+exp(-k(t - 0.45 ramp))) with k = 6/ramp, clamped to
\* [0, 1]; row ramp_months holds t = 1 .. ramp_months - 1
SCurveTable ==
    <<
        <<>>,
        <<567382>>,
        <<298228, 801883>>,
        <<186922, 567382, 882102>>,
        <<132510, 402221, 718811, 918437>>,
        <<101494, 298228, 567382, 801883, 938375>>,
        <<81801, 231610, 449194, 678368, 850889, 950756>>,
        <<68312, 186922, 362067, 567382, 751897, 882102, 959116>>,
        <<58543, 155510, 298228, 475558, 654798, 801883, 903294, 965109>>,
        <<51166, 132510, 250791, 402221, 567382, 718811, 837092, 918437, 969602>>,
        <<45409, 115082, 214810, 344226, 492364, 639431, 766181, 862774, 929707,
          973089>>,
        <<40798, 101494, 186922, 298228, 429519, 567382, 695543, 801883, 882102,
          938375, 975869>>,
        <<37025, 90642, 164860, 261414, 377377, 503993, 628638, 739438, 829344, 897049,
          945224, 978136>>,
        <<33883, 81801, 147079, 231610, 334166, 449194, 567382, 678368, 774126, 850889,
          908881, 950756, 980018>>,
        <<31227, 74474, 132510, 207183, 298228, 402221, 512511, 620647, 718811, 801883,
          868109, 918437, 955309, 981605>>,
        <<28953, 68312, 120396, 186922, 268155, 362067, 464011, 567382, 665200, 751897,
          824386, 882102, 926289, 959116, 982961>>,
        <<26986, 63063, 110190, 169923, 242806, 327712, 421456, 519016, 614496, 702483,
          779181, 842866, 893645, 932840, 962342, 984132>>,
        <<25267, 58543, 101494, 155510, 221270, 298228, 384238, 475558, 567382, 654798,
          733792, 801883, 858226, 903294, 938375, 965109, 985153>>
    >>

\* the curve with the unscaled logistic ceiling 1/(1+exp(-3.3)) at saturation
_s_curve_ramp_unscaled(months_since_golive, ramp_months) ==
    IF months_since_golive <= 0 THEN 0
    ELSE IF months_since_golive >= ramp_months THEN 964429
    ELSE SCurveTable[ramp_months][months_since_golive]

_s_curve_ramp(months_since_golive, ramp_months) ==
    IF months_since_golive <= 0 THEN 0
    ELSE IF months_since_golive >= ramp_months THEN 1000000
    ELSE SCurveTable[ramp_months][months_since_golive]

\* _compute_yearly_factors(start_month, end_month, horizon_years, ramp_months):
\* per year round(month_sum / 12, 4), in 1e-4
\* the factors without the benefit end: every month from start_month on counts
_compute_yearly_factors_open(start_month, end_month, horizon_years, ramp_months) ==
    [yr \in 1..horizon_years |->
        LET active == { m \in ((yr - 1) * 12 + 1)..(yr * 12) : m >= start_month }
            month_sum == SumOver([m \in active |->
                                     _s_curve_ramp(m - start_month + 1, ramp_months)],
                                 active)
        IN  IF active = {} THEN 0 ELSE RoundDiv(month_sum, 1200)]

_compute_yearly_factors(start_month, end_month, horizon_years, ramp_months) ==
    LET total_months == horizon_years * 12
        last_month == IF end_month <= 0 THEN total_months ELSE Min(end_month, total_months)
    IN  [yr \in 1..horizon_years |->
            LET active == { m \in ((yr - 1) * 12 + 1)..(yr * 12) :
                               m >= start_month /\ m <= last_month }
                month_sum == SumOver([m \in active |->
                                         _s_curve_ramp(m - start_month + 1, ramp_months)],
                                     active)
            IN  IF active = {} THEN 0 ELSE RoundDiv(month_sum, 1200)]

\* ------------------------------------------------------------ initiatives
\* Entries of INITIATIVE_LIBRARY as score_initiatives hands them on (enabled,
\* matchScore in tenths), and entries changed through the override API.
\* channels_ok is FALSE when the channels list holds an unhashable entry.
\* The underscore fields are the annotations run_waterfall writes; annotated
\* tells whether a run has written them.
NoAnnotation ==
    [annotated |-> FALSE, _fteImpact |-> 0, _annualSaving |-> 0, _poolConsumed |-> 0,
     _poolCapped |-> FALSE, _grossFTE |-> 0, _capApplied |-> FALSE,
     _yearlyFactors |-> << >>, _mechanism |-> "none", _contributionPct |-> 0]

Entry(id, layer, lever, impact, adoption, channels, roles, ramp, matchScore) ==
    [id |-> id, layer |-> layer, lever |-> lever, impact |-> impact, adoption |-> adoption,
     channels |-> channels, channels_ok |-> TRUE, roles |-> roles, ramp |-> ramp,
     startMonth |-> 1, benefitEndMonth |-> 0, enabled |-> TRUE, matchScore |-> matchScore]
    @@ NoAnnotation

AI == "AI & Automation"
OP == "Operating Model"
LS == "Location Strategy"

INITIATIVE_LIBRARY ==
    { Entry("AI01", AI, "deflection", 300, 800, {"Voice", "Chat"}, {"Agent L1"}, 9, 612),
      Entry("AI06", AI, "escalation_reduction", 250, 900, {"Voice", "Chat"},
            {"Supervisor / Team Lead"}, 3, 388),
      Entry("AI12", AI, "shrinkage_reduction", 100, 800, {"Voice", "Chat"},
            {"WFM Analyst"}, 6, 207),
      Entry("OP01", OP, "deflection", 150, 850, {"Voice", "Chat"},
            {"Agent L1", "Agent L2 / Specialist", "Supervisor / Team Lead"}, 9, 455),
      Entry("OP08", OP, "escalation_reduction", 250, 800, {"Voice", "Chat"},
            {"Agent L2 / Specialist", "Agent L3 / Expert", "Supervisor / Team Lead"}, 6, 290),
      Entry("OP13", OP, "aht_reduction", 80, 850, {"Voice", "Chat", "Email"},
            {"Agent L1", "Supervisor / Team Lead"}, 3, 731),
      Entry("LS01", LS, "cost_reduction", 250, 800, {"Voice", "Chat", "Email"},
            {"Agent L1"}, 12, 455),
      Entry("LS07", LS, "cost_reduction", 120, 850, {"Voice", "Chat"},
            {"Agent L1", "Supervisor / Team Lead"}, 6, 455) }

\* AI03 targets the IVR channel the data has no queue for: score_initiatives
\* leaves it disabled with matchScore 0.
DisabledEntries ==
    { [Entry("AI03", AI, "deflection", 250, 750, {"IVR"}, {"Agent L1"}, 6, 0)
          EXCEPT !.enabled = FALSE] }

\* Entries edited through api_update_initiative, which stores any field:
\* OP10 moved to the transfer lever with a raised impact, LS04 with a nested
\* channel list, and OP02 moved to a lever the engine has no pool for.
OverriddenEntries ==
    { Entry("OP10", OP, "transfer_reduction", 400, 850, {"Voice", "Chat"},
            {"Supervisor / Team Lead"}, 3, 290),
      [Entry("LS04", LS, "cost_reduction", 300, 750, {}, {"Agent L1"}, 9, 207)
          EXCEPT !.channels_ok = FALSE],
      Entry("OP02", OP, "quality_uplift", 100, 750, {"Voice", "Chat", "Email"},
            {"Agent L1", "Trainer"}, 9, 388) }

Templates == INITIATIVE_LIBRARY \cup DisabledEntries \cup OverriddenEntries

\* the initiative lists run_waterfall may be handed: up to MaxInits
\* entries with distinct ids, in any order
InitiativeLists ==
    UNION { { s \in [1..n -> Templates] : \A i, j \in 1..n : i # j => s[i].id # s[j].id }
            : n \in 1..MaxInits }

\* ------------------------------------------------------------------ sort
\* key of sorted(enabled, key=...): (layer, lever, -matchScore); the slip
\* drops the minus sign
SortKey_ascending(x) == <<layer_order(x.layer), lever_order_map(x.lever), x.matchScore>>
\* the slip leaves the score out of the key
SortKey_no_score(x) == <<layer_order(x.layer), lever_order_map(x.lever), 0>>
SortKey(x) == <<layer_order(x.layer), lever_order_map(x.lever), 0 - x.matchScore>>

KeyLess(a, b) ==
    \/ a[1] < b[1]
    \/ a[1] = b[1] /\ a[2] < b[2]
    \/ a[1] = b[1] /\ a[2] = b[2] /\ a[3] < b[3]

\* sorted() is stable: equal keys keep their list order.  The result lists
\* positions of the initiative list.
SortedInits(inits) ==
    LET enabled == { i \in 1..Len(inits) : inits[i].enabled }
        Before(i, j) == \/ KeyLess(SortKey(inits[i]), SortKey(inits[j]))
                        \/ SortKey(inits[i]) = SortKey(inits[j]) /\ i < j
        rank(i) == 1 + Cardinality({ j \in enabled : Before(j, i) })
    IN  [p \in 1..Cardinality(enabled) |-> CHOOSE i \in enabled : rank(i) = p]

\* ----------------------------------------------------------------- state
VARIABLES
    params,        \* data['params']
    initiatives,   \* the initiative list the caller holds (annotated in place)
    pools,         \* pools of the current run_waterfall invocation
    role_cum,      \* role -> cumulative allocated FTE (FU)
    role_impact,   \* role -> yearly reduction (FU / 100), one entry per horizon year
    audit_trail,   \* audit entries in processing order
    pool_log,      \* consume_pool calls of the invocation: lever and consumed_fte
    sorted_inits,  \* positions of the enabled initiatives in processing order
    pos,           \* loop position in sorted_inits
    yearly,        \* yearly projection of the last finished invocation
    pc,            \* "ready" | "cascade" | "done" | "pool"
    runs,          \* run_waterfall invocations started
    previous,      \* results of the invocation before the current one
    calls,         \* direct consume_pool calls made (pool-only specification)
    ret            \* dict returned by the last direct consume_pool call

\* state of the callers of the engine's other entry points
VARIABLES
    results,       \* the pools dicts compute_pools has returned, one object per call
    in_queues,     \* the enriched_queues list the caller hands to compute_pools
    stack,         \* suspended run_waterfall invocations, outermost first
    skip,          \* _skip_scenarios / _skip_sensitivity of the running invocation
    sub,           \* sub-runs the running invocation has started so far
    aliased,       \* the running invocation's list is its caller's own list object
    sub_results,   \* totalNPV of the sub-runs that have returned to the running invocation
    executions,    \* pipeline executions started since the top-level call
    data_queues    \* data['queues'], the queue rows as loaded

\* a helper function called on its own
VARIABLES
    fn_args,       \* the arguments of the call
    fn_local,      \* the callee's local variables
    fn_value       \* what the call returned

fn == <<fn_args, fn_local, fn_value>>
NoArgs == [none |-> TRUE]
NoLocal == [none |-> TRUE]
NoValue == [returned |-> FALSE]
FnIdle == fn_args = NoArgs /\ fn_local = NoLocal /\ fn_value = NoValue

aux == <<results, in_queues, stack, skip, sub, aliased, sub_results, executions, fn,
         data_queues>>

\* the other entry points are not in use
NoSkip == [scenarios |-> FALSE, sensitivity |-> FALSE]
AuxIdle ==
    /\ results = << >>
    /\ in_queues = << >>
    /\ stack = << >>
    /\ skip = NoSkip
    /\ sub = 0
    /\ aliased = FALSE
    /\ sub_results = << >>
    /\ executions = 0
    /\ data_queues = Queues
    /\ FnIdle

vars == <<params, initiatives, pools, role_cum, role_impact, audit_trail, pool_log,
          sorted_inits, pos, yearly, pc, runs, previous, calls, ret, aux>>

NoResult == [valid |-> FALSE]
NoReturn == [called |-> FALSE]

ParamsChoices ==
    { BaseParams @@ [volumeAnnualizationFactor |-> f] : f \in AnnualizationFactors }

\* A parameter read from a blank cell is None; NoneValue stands for it.
\* compute_pools raises TypeError at total_volume_raw * annualization when
\* volumeAnnualizationFactor is None.
NoneValue == 0 - 1

\* the data with the acw cell of the second row left blank
BlankAcwQueues == [Queues EXCEPT ![2].acw = NoneValue]
DataChoices == {Queues, BlankAcwQueues}

\* enrich_intents raises TypeError in _decompose_aht (acw * 0.80) on a row
\* whose acw is None
enrich_raises(rows) == \E i \in SeqIdx(rows) : rows[i].acw = NoneValue

\* a raw row that carries the profile keys all the same
raw_queue_profiled(q) == enrich_queue(q)

\* a raw row as the pools and the gross formulas read it: every profile key
\* is absent
raw_queue(q) ==
    LET e == enrich_queue(q)
    IN  [e EXCEPT !.repeatability = Missing, !.emotional_risk = Missing,
                  !.auth_required = Missing, !.containment_feasibility = Missing,
                  !.deflection_eligible_pct = Missing,
                  !.aht_decomp = [f \in DOMAIN e.aht_decomp |-> Missing],
                  !.transfer_class = [f \in DOMAIN e.transfer_class |-> Missing],
                  !.migration_readiness = Missing]

\* step 1: enriched_queues = enrich_intents(queues, params), or the raw
\* queues when it raises
enriched_table ==
    [rows \in DataChoices |->
        IF enrich_raises(rows) THEN [i \in SeqIdx(rows) |-> raw_queue(rows[i])]
        ELSE enrich_intents(rows)]
enriched_queues == enriched_table[data_queues]
compute_pools_raises(p) == p.volumeAnnualizationFactor = NoneValue

\* pool_result.get('annualization_factor', 1.0) if pool_result else 1.0
annualization(p) == IF compute_pools_raises(p) THEN 1 ELSE p.volumeAnnualizationFactor

annual_table ==
    [rows \in DataChoices |->
        [f \in AnnualizationFactors \cup {1} |->
            [i \in SeqIdx(rows) |-> [enriched_table[rows][i] EXCEPT !.volume = @ * f]]]]
annual_queues_for == annual_table[data_queues]

annual_queues(p) == annual_queues_for[annualization(p)]

\* compute_pools(enriched_queues, roles, params)['pools'] of step 2
pool_table ==
    [rows \in DataChoices |->
        [p \in ParamsChoices |-> compute_pools(enriched_table[rows], Roles, p)]]
pool_result_for == pool_table[data_queues]

ZeroLedger == [r \in RoleNames |-> 0]
ZeroYearly(horizon) == [r \in RoleNames |-> [yr \in 1..horizon |-> 0]]

Init ==
    /\ params \in ParamsChoices
    /\ initiatives \in InitiativeLists
    /\ pools = << >>
    /\ role_cum = ZeroLedger
    /\ role_impact = ZeroYearly(BaseParams.horizon)
    /\ audit_trail = << >>
    /\ pool_log = << >>
    /\ sorted_inits = << >>
    /\ pos = 1
    /\ yearly = << >>
    /\ pc = "ready"
    /\ runs = 0
    /\ previous = NoResult
    /\ calls = 0
    /\ ret = NoReturn
    /\ AuxIdle

\* what an invocation hands back and leaves on the initiative objects
RunResult ==
    [valid |-> TRUE, pools |-> pools, role_cum |-> role_cum, role_impact |-> role_impact,
     pool_log |-> pool_log, audit_trail |-> audit_trail, yearly |-> yearly,
     net_fte |-> [i \in 1..Len(initiatives) |-> initiatives[i]._fteImpact]]

\* RunStart with pools kept from the invocation before (a cached pool_result)
RunStart_stale_pools ==
    /\ pc \in {"ready", "done"}
    /\ runs < MaxRuns
    /\ previous' = IF pc = "done" THEN RunResult ELSE previous
    /\ pools' = IF pc = "done" THEN pools ELSE pool_result_for[params].pools
    /\ sorted_inits' = SortedInits(initiatives)
    /\ role_cum' = ZeroLedger
    /\ role_impact' = ZeroYearly(params.horizon)
    /\ audit_trail' = << >>
    /\ pool_log' = << >>
    /\ pos' = 1
    /\ pc' = "cascade"
    /\ runs' = runs + 1
    /\ UNCHANGED <<params, initiatives, yearly, calls, ret, aux>>

\* run_waterfall up to the start of the cascade loop: enrich, compute the
\* pools afresh, sort the enabled initiatives, zero the ledgers.
RunStart ==
    /\ pc \in {"ready", "done"}
    /\ runs < MaxRuns
    /\ previous' = IF pc = "done" THEN RunResult ELSE previous
    /\ pools' = pool_result_for[params].pools
    /\ sorted_inits' = SortedInits(initiatives)
    /\ role_cum' = ZeroLedger
    /\ role_impact' = ZeroYearly(params.horizon)
    /\ audit_trail' = << >>
    /\ pool_log' = << >>
    /\ pos' = 1
    /\ pc' = "cascade"
    /\ runs' = runs + 1
    /\ UNCHANGED <<params, initiatives, yearly, calls, ret, aux>>

\* ------------------------------------------------------- cascade loop body
\* affected roles of an initiative: [r for r in roles if r['role'] in init['roles']]
Affected(init) == { i \in SeqIdx(Roles) : Roles[i].role \in init.roles }

\* INITIATIVE_FTE_CAPS.get(lever, 0.12) * tot_aff, in FU; the slip leaves a
\* lever without an entry uncapped (default 1.0)
type_cap_no_default(lever, tot_aff) ==
    LET cap == IF lever \in DOMAIN INITIATIVE_FTE_CAPS
               THEN INITIATIVE_FTE_CAPS[lever] ELSE 1000
    IN  (cap * tot_aff * Hundredth) \div 10
type_cap(lever, tot_aff) ==
    LET cap == IF lever \in DOMAIN INITIATIVE_FTE_CAPS
               THEN INITIATIVE_FTE_CAPS[lever] ELSE DEFAULT_TYPE_CAP
    IN  (cap * tot_aff * Hundredth) \div 10

abs_cap(tot_aff) == (ABSOLUTE_SINGLE_INIT_CAP * tot_aff * Hundredth) \div 10

\* sum over the affected roles of max(0, headcount * 0.45 - role_cum[role])
avail(affected, cum) ==
    SumOver([i \in affected |->
                Max(0, (Roles[i].headcount * PER_ROLE_MAX_REDUCTION * Hundredth) \div 10
                       - cum[Roles[i].role])], affected)

\* the gross dict of step 4a: lever physics, or the fallback when it raises
GrossOf(init, p) ==
    IF gross_raises(init)
    THEN fallback_gross(init, Roles) @@ [mechanism |-> "Fallback"]
    ELSE LET g == compute_gross_impact(init, annual_queues(p), Roles, p)
         IN  g @@ [mechanism |-> IF g.is_location THEN "Location" ELSE "Physics"]

\* tot_aff = sum(r['headcount'] for r in affected); the slip falls back to
\* the whole roster when no role of the roster is named
tot_aff_or_roster(init) ==
    IF Affected(init) = {} THEN Headcount(Roles, AllRoleNames(Roles))
    ELSE Headcount(Roles, init.roles)
tot_aff_of(init) == Headcount(Roles, init.roles)

\* tot_aff == 0: the initiative is annotated and skipped
SkipNoRoles(k) ==
    /\ initiatives' = [initiatives EXCEPT ![k] =
          [@ EXCEPT !.annotated = TRUE, !._fteImpact = 0, !._annualSaving = 0,
                    !._mechanism = "No affected roles", !._poolConsumed = 0,
                    !._poolCapped = FALSE]]
    /\ UNCHANGED <<pools, role_cum, role_impact, audit_trail, pool_log>>

\* is_location branch: saving only; the pool is debited when the guard
\* "pools and 'cost_reduction' in pools and gross_migrated > 0" holds
StepLocation(k, init, gross) ==
    LET start_m == Max(1, init.startMonth)
        loc_yearly_factors ==
            _compute_yearly_factors(start_m, init.benefitEndMonth, params.horizon, init.ramp)
        gross_migrated == gross.gross_fte_migrated
        debit == /\ DOMAIN pools # {}
                 /\ "cost_reduction" \in DOMAIN pools
                 /\ gross_migrated > 0
        loc_consumption == consume_pool(pools, "cost_reduction", gross_migrated, 0, 0)
        consumed_fte == loc_consumption.consumed_fte
        scaled == debit /\ consumed_fte < gross_migrated
        net_migrated == IF scaled THEN consumed_fte ELSE gross_migrated
        \* gross_saving * (consumed_fte / gross_migrated), rounded
        saving == IF scaled
                  THEN RoundMulDiv(gross.gross_saving, consumed_fte \div Hundredth,
                                   gross_migrated \div Hundredth)
                  ELSE gross.gross_saving
        pool_capped == debit /\ loc_consumption.capped
    IN  /\ pools' = IF debit THEN loc_consumption.pools ELSE pools
        /\ pool_log' = IF debit
                       THEN Append(pool_log, [lever |-> "cost_reduction",
                                              consumed_fte |-> consumed_fte])
                       ELSE pool_log
        /\ initiatives' = [initiatives EXCEPT ![k] =
              [@ EXCEPT !.annotated = TRUE, !._fteImpact = 0, !._annualSaving = saving,
                        !._mechanism = gross.mechanism,
                        !._poolConsumed = Round1FU(net_migrated),
                        !._poolCapped = pool_capped, !._grossFTE = 0,
                        !._yearlyFactors = loc_yearly_factors,
                        !._capApplied = pool_capped]]
        /\ audit_trail' = Append(audit_trail,
              [id |-> init.id, lever |-> init.lever, gross_fte |-> 0, net_fte |-> 0,
               saving |-> saving, mechanism |-> gross.mechanism,
               pool_capped |-> pool_capped, gross_migrated |-> gross.gross_fte_migrated,
               net_migrated |-> Round1FU(net_migrated)])
        /\ UNCHANGED <<role_cum, role_impact>>

\* every affected role is charged the whole reduction
pro_rata_whole(red, headcount, tot_aff) == red
\* red * (r['headcount'] / tot_aff)
pro_rata(red, headcount, tot_aff) == MulDiv(red, headcount, tot_aff)

\* net_fte = consumption.get('consumed_fte', raw_fte); the slip reads a
\* grant of 0 as a missing key
net_of_falsy(consumption, raw_fte) ==
    IF consumption.consumed_fte = 0 THEN raw_fte ELSE consumption.consumed_fte
net_of(consumption, raw_fte) == consumption.consumed_fte

\* steps 4b-4d and the annotations for every other initiative
StepNet(k, init, gross, affected, tot_aff) ==
    LET lever == init.lever
        raw_fte == gross.gross_fte
        consumption == consume_pool(pools, lever, raw_fte, gross.gross_contacts,
                                    gross.gross_seconds)
        net_fte == net_of(consumption, raw_fte)
        pool_capped == consumption.capped
        red == Max(0, Min(Min3(net_fte, type_cap(lever, tot_aff), abs_cap(tot_aff)),
                          avail(affected, role_cum)))
        share(i) == pro_rata(red, Roles[i].headcount, tot_aff)
        start_m == Max(1, init.startMonth)
        yearly_factors ==
            _compute_yearly_factors(start_m, init.benefitEndMonth, params.horizon, init.ramp)
        \* wtd = cost_num / tot_aff
        cost_num == CostSum(Roles, init.roles)
        saving == RoundDiv(red * cost_num, tot_aff * FU)
        safety_capped == 100 * red < 95 * raw_fte
    IN  /\ pools' = consumption.pools
        /\ pool_log' = Append(pool_log, [lever |-> lever, consumed_fte |-> net_fte])
        /\ role_cum' = [r \in RoleNames |->
              role_cum[r] + SumOver([i \in affected |->
                                        IF Roles[i].role = r THEN share(i) ELSE 0], affected)]
        /\ role_impact' = [r \in RoleNames |-> [yr \in 1..params.horizon |->
              role_impact[r][yr]
              + SumOver([i \in affected |->
                            IF Roles[i].role = r
                            THEN RoundMulDiv(share(i), yearly_factors[yr], 100) ELSE 0],
                        affected)]]
        /\ initiatives' = [initiatives EXCEPT ![k] =
              [@ EXCEPT !.annotated = TRUE, !._fteImpact = Round1FU(red),
                        !._annualSaving = saving, !._yearlyFactors = yearly_factors,
                        !._capApplied = safety_capped, !._mechanism = gross.mechanism,
                        !._poolConsumed = Round1FU(red), !._poolCapped = pool_capped,
                        !._grossFTE = Round1FU(raw_fte)]]
        /\ audit_trail' = Append(audit_trail,
              [id |-> init.id, lever |-> lever, gross_fte |-> Round1FU(raw_fte),
               net_fte |-> Round1FU(red), saving |-> saving, mechanism |-> gross.mechanism,
               pool_capped |-> pool_capped, safety_capped |-> safety_capped])

\* one iteration of "for init in sorted_inits"
Step ==
    /\ pc = "cascade"
    /\ pos <= Len(sorted_inits)
    /\ LET k == sorted_inits[pos]
           init == initiatives[k]
           affected == Affected(init)
           tot_aff == tot_aff_of(init)
       IN  IF tot_aff = 0
           THEN SkipNoRoles(k)
           ELSE LET gross == GrossOf(init, params)
                IN  IF gross.is_location
                    THEN StepLocation(k, init, gross)
                    ELSE StepNet(k, init, gross, affected, tot_aff)
    /\ pos' = pos + 1
    /\ UNCHANGED <<params, sorted_inits, yearly, pc, runs, previous, calls, ret, aux>>

\* ------------------------------------------------- clamp and projection
RECURSIVE Discounted(_, _, _)
\* x / (1 + rate) ^ years for a per-mille rate
Discounted(x, rate, years) ==
    IF years = 0 THEN x ELSE Discounted(MulDiv(x, 1000, 1000 + rate), rate, years - 1)

\* ri['yearly'] = [min(v, ri['baseline'] * PER_ROLE_MAX_REDUCTION) for v in ri['yearly']]
ClampYearly(impact) ==
    [r \in RoleNames |-> [yr \in DOMAIN impact[r] |->
        LET i == CHOOSE j \in SeqIdx(Roles) : Roles[j].role = r
        IN  Min(impact[r][yr],
                Roles[i].headcount * PER_ROLE_MAX_REDUCTION * Hundredth * 10)]]

\* location_yearly[yr] in 1e-4 currency: sum of _annualSaving * factor over the
\* processed cost_reduction initiatives with a positive saving
location_yearly(inits, order, yr) ==
    LET idx == { p \in SeqIdx(order) :
                    /\ inits[order[p]].lever = "cost_reduction"
                    /\ inits[order[p]]._annualSaving > 0 }
    IN  SumOver([p \in idx |->
                    LET factors == inits[order[p]]._yearlyFactors
                        f == IF yr <= Len(factors) THEN factors[yr]
                             ELSE IF factors # << >> THEN factors[Len(factors)] ELSE 9500
                    IN  inits[order[p]]._annualSaving * f], idx)

\* the yearly list (wageInflation = 0: net = saving), money in 1e-4 before rounding
YearlyProjection(impact, inits, order, p) ==
    LET total_fte == Headcount(Roles, AllRoleNames(Roles))
        reduction(yr) == SumOver([r \in RoleNames |-> impact[r][yr]], RoleNames)
        net(yr) ==
            SumOver([i \in SeqIdx(Roles) |->
                        MulDiv(impact[Roles[i].role][yr], Roles[i].costPerFTE * 100, FU)],
                    SeqIdx(Roles))
            + location_yearly(inits, order, yr)
    IN  [yr \in 1..p.horizon |->
            [year |-> yr,
             fteReduction |-> RoundDiv(reduction(yr), FU * 100),
             finalFTE |-> total_fte - RoundDiv(reduction(yr), FU * 100),
             annualSaving |-> RoundDiv(net(yr), 10000),
             cumSaving |-> RoundDiv(SumOver([y \in 1..yr |-> net(y)], 1..yr), 10000),
             npv |-> RoundDiv(Discounted(net(yr), p.discountRate, yr), 10000)]]

\* the code after the loop: clamp the role ledgers, project the years
\* "Safe contribution %": every enabled initiative gets its share of the
\* positive savings (in 0.1 %), every disabled one _contributionPct = 0; no
\* other key of a disabled initiative is written
contribution(inits) ==
    LET idx == SeqIdx(inits)
        pos_saving(i) == IF inits[i].enabled /\ inits[i]._annualSaving > 0
                         THEN inits[i]._annualSaving ELSE 0
        tot_isav == SumOver([i \in idx |-> pos_saving(i)], idx)
        pct(i) == IF tot_isav > 0
                  THEN Min(1000, Max(0, RoundDiv(inits[i]._annualSaving * 1000,
                                                 Max(tot_isav, 1))))
                  ELSE 0
    IN  [i \in idx |->
            [inits[i] EXCEPT !._contributionPct = IF inits[i].enabled THEN pct(i) ELSE 0]]

Finish ==
    /\ pc = "cascade"
    /\ pos > Len(sorted_inits)
    /\ role_impact' = ClampYearly(role_impact)
    /\ yearly' = YearlyProjection(ClampYearly(role_impact), initiatives, sorted_inits, params)
    /\ initiatives' = contribution(initiatives)
    /\ pc' = "done"
    /\ UNCHANGED <<params, pools, role_cum, audit_trail, pool_log,
                   sorted_inits, pos, runs, previous, calls, ret, aux>>

Next == RunStart \/ Step \/ Finish

Spec == Init /\ [][Next]_vars

\* ------------------------------------------- pool-only specification
\* compute_pools followed by direct consume_pool calls with arbitrary
\* non-negative amounts, as a caller of engines/pools.py may make them.
CallLevers ==
    { LEVER_ORDER[i] : i \in 1..Len(LEVER_ORDER) } \cup {"location", "quality_uplift"}

CallFte     == {0, 6 * Hundredth, 12 * Tenth}
\* (amount_contacts, amount_seconds) pairs of a call
CallVolumes == { <<0, 0>>, <<200000, 0>>, <<0, 3000000>> }

InitPool ==
    /\ params \in ParamsChoices
    /\ pools = pool_table[Queues][params].pools
    /\ initiatives = << >>
    /\ role_cum = ZeroLedger
    /\ role_impact = ZeroYearly(BaseParams.horizon)
    /\ audit_trail = << >>
    /\ pool_log = << >>
    /\ sorted_inits = << >>
    /\ pos = 1
    /\ yearly = << >>
    /\ pc = "pool"
    /\ runs = 0
    /\ previous = NoResult
    /\ calls = 0
    /\ ret = NoReturn
    /\ AuxIdle

ConsumeCall ==
    /\ pc = "pool"
    /\ calls < MaxCalls
    /\ \E lever \in CallLevers, amount_fte \in CallFte, volumes \in CallVolumes :
          LET r == consume_pool(pools, lever, amount_fte, volumes[1], volumes[2])
          IN  /\ pools' = r.pools
              /\ ret' = [called |-> TRUE, lever |-> lever, amount_fte |-> amount_fte,
                         consumed_fte |-> r.consumed_fte, capped |-> r.capped,
                         pool_exhausted |-> r.pool_exhausted,
                         unknown_lever |-> r.unknown_lever]
    /\ calls' = calls + 1
    /\ UNCHANGED <<params, initiatives, role_cum, role_impact, audit_trail, pool_log,
                   sorted_inits, pos, yearly, pc, runs, previous, aux>>

NextPool == ConsumeCall

SpecPool == InitPool /\ [][NextPool]_vars

\* ------------------------------------- repeated compute_pools calls
\* A caller of engines/pools.py that calls compute_pools several times on
\* the same inputs and consume_pool on any of the results it holds.
\* compute_pools builds its pools dict afresh (pools = {} and one dict
\* literal per pool); the slip hands back the dict of the call before.
fresh_pools_cached(held, built) == IF held = << >> THEN built ELSE held[Len(held)]
fresh_pools(held, built) == built

\* ann_queues is built from copies (aq = dict(q)); the input list keeps its
\* queues as they were
input_after_compute(queues) == queues

PureLevers ==
    {"deflection", "aht_reduction", "escalation_reduction", "cost_reduction",
     "quality_uplift"}

InitPure ==
    /\ params \in ParamsChoices
    /\ in_queues = enriched_table[Queues]
    /\ results = << >>
    /\ stack = << >>
    /\ skip = NoSkip
    /\ sub = 0
    /\ aliased = FALSE
    /\ sub_results = << >>
    /\ executions = 0
    /\ data_queues = Queues
    /\ pools = << >>
    /\ initiatives = << >>
    /\ role_cum = ZeroLedger
    /\ role_impact = ZeroYearly(BaseParams.horizon)
    /\ audit_trail = << >>
    /\ pool_log = << >>
    /\ sorted_inits = << >>
    /\ pos = 1
    /\ yearly = << >>
    /\ pc = "pure"
    /\ runs = 0
    /\ previous = NoResult
    /\ calls = 0
    /\ ret = NoReturn
    /\ FnIdle

PureFrame ==
    UNCHANGED <<params, pools, initiatives, role_cum, role_impact, audit_trail, pool_log,
                sorted_inits, pos, yearly, pc, runs, previous, ret,
                stack, skip, sub, aliased, sub_results, executions, fn, data_queues>>

\* result = compute_pools(in_queues, roles, params); the caller keeps result['pools']
ComputeCall ==
    /\ pc = "pure"
    /\ calls < MaxCalls
    /\ results' = Append(results,
                         fresh_pools(results, compute_pools(in_queues, Roles, params).pools))
    /\ in_queues' = input_after_compute(in_queues)
    /\ calls' = calls + 1
    /\ PureFrame

\* consume_pool(result['pools'], lever, amount_fte, ...) on a result the caller holds
ConsumeHeld ==
    /\ pc = "pure"
    /\ calls < MaxCalls
    /\ \E i \in 1..Len(results), lever \in PureLevers, amount_fte \in CallFte :
          results' = [results EXCEPT
                         ![i] = consume_pool(@, lever, amount_fte, 200000, 0).pools]
    /\ calls' = calls + 1
    /\ UNCHANGED in_queues
    /\ PureFrame

NextPure == ComputeCall \/ ConsumeHeld

SpecPure == InitPure /\ [][NextPure]_vars

\* ------------------------------- top-level call with its sub-runs
\* run_waterfall(data, initiatives) with both skip flags unset: the base
\* pipeline, then _compute_scenarios and _run_sensitivity, each of which calls
\* run_waterfall again.  The running invocation owns the pipeline variables;
\* a call pushes the caller's onto the stack and a return pops them.
TopTemplates ==
    { t \in Templates : t.id \in {"AI01", "OP13", "LS01", "AI03", "OP02", "LS04"} }

TopLists ==
    { l \in UNION { [1..n -> TopTemplates] : n \in 1..MaxTopInits } :
         \A i, j \in 1..Len(l) : i # j => l[i].id # l[j].id }

\* the sub-runs in call order: the two scenarios of _compute_scenarios, then
\* low and high of each variable of _run_sensitivity
Variables ==
    <<"volumeGrowth", "wageInflation", "discountRate", "attritionMonthly", "_adoption",
      "redeploymentPct">>
NumScenarios == 2
NumSubRuns == NumScenarios + 2 * Len(Variables)

\* mi = deepcopy(initiatives) with adoption = min(1.0, adoption * amult) and
\* ramp = max(2, round(ramp * ramp_mult)); mults in tenths
scenario_inits(inits, amult, ramp_mult) ==
    [i \in 1..Len(inits) |->
        [inits[i] EXCEPT !.adoption = Min(1000, RoundDiv(@ * amult, 10)),
                         !.ramp = Max(2, RoundDiv(@ * ramp_mult, 10))]]

\* li / hi = deepcopy(initiatives) with adoption * (1 - sf) and
\* min(1.0, adoption * (1 + sf))
adoption_inits(inits, low) ==
    [i \in 1..Len(inits) |->
        [inits[i] EXCEPT !.adoption = IF low THEN RoundDiv(@ * 8, 10)
                                      ELSE Min(1000, RoundDiv(@ * 12, 10))]]

\* dl = deepcopy(data); dl['params'][pk] = data['params'].get(pk, 0) * (1 -/+ sf)
perturbed_params(p, pk, low) ==
    [k \in DOMAIN p \cup {pk} |->
        IF k # pk THEN p[k]
        ELSE IF pk \in DOMAIN p THEN RoundDiv(p[pk] * (IF low THEN 8 ELSE 12), 10)
        ELSE 0]

\* arguments of sub-run k: data['params'], the initiative list, and whether
\* that list is the caller's own list object or a deep copy
SubRunArgs(k, p, inits) ==
    IF k = 1 THEN [params |-> p, initiatives |-> scenario_inits(inits, 7, 15),
                   aliased |-> FALSE]
    ELSE IF k = 2 THEN [params |-> p, initiatives |-> scenario_inits(inits, 13, 6),
                        aliased |-> FALSE]
    ELSE LET v == Variables[(k - NumScenarios + 1) \div 2]
             low == (k - NumScenarios) % 2 = 1
         IN  IF v = "_adoption"
             THEN [params |-> p, initiatives |-> adoption_inits(inits, low),
                   aliased |-> FALSE]
             ELSE [params |-> perturbed_params(p, v, low), initiatives |-> inits,
                   aliased |-> TRUE]

\* run_waterfall(..., _skip_sensitivity=True, _skip_scenarios=True), and the
\* slip that leaves the flags at their defaults
sub_flags_unset == [scenarios |-> FALSE, sensitivity |-> FALSE]
sub_flags == [scenarios |-> TRUE, sensitivity |-> TRUE]

total_npv(y) == SumSeq([i \in 1..Len(y) |-> y[i].npv])

\* sub-run k is made by the running invocation: scenarios unless
\* _skip_scenarios, sensitivity unless _skip_sensitivity or abs(base_npv) < 1
SubRunMade(k) ==
    IF k <= NumScenarios THEN ~skip.scenarios
    ELSE ~skip.sensitivity /\ total_npv(yearly) # 0
PendingSubRuns == { k \in (sub + 1)..NumSubRuns : SubRunMade(k) }
NextSubRun == CHOOSE k \in PendingSubRuns : \A j \in PendingSubRuns : k <= j

\* the parameter sets of a top-level call: the usual ones and one whose
\* annualization factor was left blank
TopParams ==
    ParamsChoices \cup { BaseParams @@ [volumeAnnualizationFactor |-> NoneValue] }

InitTop ==
    /\ params \in TopParams
    /\ initiatives \in TopLists
    /\ pools = << >>
    /\ role_cum = ZeroLedger
    /\ role_impact = ZeroYearly(BaseParams.horizon)
    /\ audit_trail = << >>
    /\ pool_log = << >>
    /\ sorted_inits = << >>
    /\ pos = 1
    /\ yearly = << >>
    /\ pc = "enter"
    /\ runs = 0
    /\ previous = NoResult
    /\ calls = 0
    /\ ret = NoReturn
    /\ results = << >>
    /\ in_queues = << >>
    /\ stack = << >>
    /\ skip = NoSkip
    /\ sub = 0
    /\ aliased = FALSE
    /\ sub_results = << >>
    /\ executions = 0
    /\ data_queues = Queues
    /\ FnIdle

\* steps 1-3 of an invocation, as in RunStart; pools = {} when compute_pools raises
Enter ==
    /\ pc = "enter"
    /\ pools' = IF compute_pools_raises(params) THEN << >>
                ELSE compute_pools(enriched_queues, Roles, params).pools
    /\ sorted_inits' = SortedInits(initiatives)
    /\ role_cum' = ZeroLedger
    /\ role_impact' = ZeroYearly(params.horizon)
    /\ audit_trail' = << >>
    /\ pool_log' = << >>
    /\ pos' = 1
    /\ pc' = "cascade"
    /\ executions' = executions + 1
    /\ UNCHANGED <<params, initiatives, yearly, runs, previous, calls, ret, results,
                   in_queues, stack, skip, sub, aliased, sub_results, fn, data_queues>>

\* the invocation's own state, kept while a sub-run uses the pipeline variables
Frame(k) ==
    [params |-> params, initiatives |-> initiatives, pools |-> pools,
     role_cum |-> role_cum, role_impact |-> role_impact, audit_trail |-> audit_trail,
     pool_log |-> pool_log, sorted_inits |-> sorted_inits, pos |-> pos,
     yearly |-> yearly, skip |-> skip, sub |-> k, aliased |-> aliased,
     sub_results |-> sub_results]

\* wf = run_waterfall(data', initiatives', _skip_sensitivity=True, _skip_scenarios=True)
CallSubRun ==
    /\ pc = "done"
    /\ PendingSubRuns # {}
    /\ Len(stack) < MaxDepth
    /\ LET k == NextSubRun
           args == SubRunArgs(k, params, initiatives)
       IN  /\ stack' = Append(stack, Frame(k))
           /\ params' = args.params
           /\ initiatives' = args.initiatives
           /\ aliased' = args.aliased
    /\ skip' = sub_flags
    /\ sub' = 0
    /\ sub_results' = << >>
    /\ pc' = "enter"
    /\ UNCHANGED <<pools, role_cum, role_impact, audit_trail, pool_log, sorted_inits, pos,
                   yearly, runs, previous, calls, ret, results, in_queues, executions,
                   fn, data_queues>>

\* a sub-run returns: the caller goes on with its own state; its initiative
\* objects are the ones the sub-run worked on when the list was its own
ReturnSubRun ==
    /\ pc = "done"
    /\ PendingSubRuns = {} \/ Len(stack) >= MaxDepth
    /\ stack # << >>
    /\ LET f == stack[Len(stack)]
       IN  /\ stack' = SubSeq(stack, 1, Len(stack) - 1)
           /\ params' = f.params
           /\ initiatives' = IF aliased THEN initiatives ELSE f.initiatives
           /\ pools' = f.pools
           /\ role_cum' = f.role_cum
           /\ role_impact' = f.role_impact
           /\ audit_trail' = f.audit_trail
           /\ pool_log' = f.pool_log
           /\ sorted_inits' = f.sorted_inits
           /\ pos' = f.pos
           /\ yearly' = f.yearly
           /\ skip' = f.skip
           /\ sub' = f.sub
           /\ aliased' = f.aliased
           /\ sub_results' = Append(f.sub_results,
                                    [sub |-> f.sub, totalNPV |-> total_npv(yearly)])
    /\ UNCHANGED <<pc, runs, previous, calls, ret, results, in_queues, executions, fn, data_queues>>

\* the top-level call returns
ReturnTop ==
    /\ pc = "done"
    /\ PendingSubRuns = {}
    /\ stack = << >>
    /\ pc' = "returned"
    /\ UNCHANGED <<params, initiatives, pools, role_cum, role_impact, audit_trail,
                   pool_log, sorted_inits, pos, yearly, runs, previous, calls, ret, aux>>

NextTop == Enter \/ Step \/ Finish \/ CallSubRun \/ ReturnSubRun \/ ReturnTop

SpecTop == InitTop /\ [][NextTop]_vars

\* The interpreter always executes the next statement of the running
\* invocation: an invocation that has entered starts its cascade, a cascade
\* that has initiatives left processes the next one, and the code after the
\* loop, the sub-run calls and the returns are taken when they are due.
ctl == <<pc, pos>>
EnterAdvance == pc = "enter" /\ pc' = "cascade" /\ pos' = 1
StepAdvance == pc = "cascade" /\ pos <= Len(sorted_inits) /\ pos' = pos + 1 /\ pc' = pc

SpecTopFair ==
    /\ SpecTop
    /\ WF_ctl(EnterAdvance)
    /\ WF_ctl(StepAdvance)
    /\ WF_vars(Finish)
    /\ WF_vars(CallSubRun)
    /\ WF_vars(ReturnSubRun)
    /\ WF_vars(ReturnTop)

\* ================================================================ claims
AuditIdx == 1..Len(audit_trail)

\* sum of the audit trail's net_fte over the entries on one lever
LeverNet(lever) ==
    SumOver([i \in AuditIdx |->
                IF audit_trail[i].lever = lever THEN audit_trail[i].net_fte ELSE 0], AuditIdx)

\* C1: at every point of the cascade, every role's running cumulative
\* allocation role_cum[role] is at most 0.45 x the role's baseline headcount.
C1_RoleCumWithinCap ==
    \A i \in SeqIdx(Roles) :
        role_cum[Roles[i].role] * 1000 <= Roles[i].headcount * PER_ROLE_MAX_REDUCTION * FU

\* C2: for each lever, the net FTE reductions of the initiatives processed on
\* that lever in one run sum to at most the ceiling_fte of the lever's pool
\* (and to zero for a lever that has no pool).
C2_LeverNetWithinCeiling ==
    \A i \in AuditIdx :
        LET lever == audit_trail[i].lever
            pool_key == IF lever = "cost_reduction" THEN "location" ELSE lever
        IN  IF pool_key \in DOMAIN pools
            THEN LeverNet(lever) <= pools[pool_key].ceiling_fte
            ELSE LeverNet(lever) = 0

\* a finished run in which two initiatives of one lever were granted FTE and
\* together used the lever's pool up to its ceiling
C2_Witness ==
    /\ pc = "done"
    /\ \E i, j \in AuditIdx :
          /\ i < j
          /\ audit_trail[i].lever = audit_trail[j].lever
          /\ audit_trail[i].net_fte > 0
          /\ audit_trail[j].net_fte > 0
          /\ audit_trail[j].pool_capped
          /\ audit_trail[i].lever \in DOMAIN pools
          /\ LeverNet(audit_trail[i].lever) = pools[audit_trail[i].lever].ceiling_fte

PoolFields == {"fte", "contacts", "seconds", "saving"}
Remaining(pool, f) == pool["remaining_" \o f]
Ceiling(pool, f) == pool["ceiling_" \o f]
HasField(pool, f) == ("remaining_" \o f) \in DOMAIN pool

\* C3 (state part): right after compute_pools every remaining_* field equals
\* its ceiling_* field, and after any consume_pool calls with non-negative
\* amounts 0 <= remaining <= ceiling for every remaining_* field.
C3_RemainingWithinCeiling ==
    \A k \in DOMAIN pools : \A f \in PoolFields :
        HasField(pools[k], f) =>
            /\ 0 <= Remaining(pools[k], f)
            /\ Remaining(pools[k], f) <= Ceiling(pools[k], f)
            /\ calls = 0 => Remaining(pools[k], f) = Ceiling(pools[k], f)

\* C3 (step part): no consume_pool call makes a remaining_* field larger.
C3_RemainingOnlyDecreases ==
    \A k \in DOMAIN pools : \A f \in PoolFields :
        HasField(pools[k], f) => Remaining(pools[k], f)' <= Remaining(pools[k], f)

\* C3: for every pool, remaining_* equals ceiling_* immediately after
\* compute_pools; after any sequence of consume_pool calls with non-negative
\* amounts every remaining_* field stays within 0..ceiling and is never
\* larger than before the call.
C3_PoolsBounded == []C3_RemainingWithinCeiling /\ [][C3_RemainingOnlyDecreases]_vars

\* consume_pool calls have drawn on FTE, contacts, seconds and saving fields,
\* one pool is empty and the last call was cut by what was left
C3_Witness ==
    /\ calls >= 2
    /\ ret.called /\ ret.capped /\ ret.consumed_fte > 0
    /\ \E k \in DOMAIN pools : pools[k].remaining_fte = 0
    /\ \E k \in DOMAIN pools :
          HasField(pools[k], "contacts")
          /\ pools[k].remaining_contacts < pools[k].ceiling_contacts
    /\ \E k \in DOMAIN pools :
          \/ HasField(pools[k], "seconds")
             /\ pools[k].remaining_seconds < pools[k].ceiling_seconds
          \/ HasField(pools[k], "saving")
             /\ pools[k].remaining_saving < pools[k].ceiling_saving

\* C4: every initiative the cascade processes ends with a net FTE reduction
\* that is at most its gross FTE impact.
C4_NetAtMostGross ==
    /\ \A i \in AuditIdx : audit_trail[i].net_fte <= audit_trail[i].gross_fte
    /\ \A k \in 1..Len(initiatives) :
          initiatives[k].annotated => initiatives[k]._fteImpact <= initiatives[k]._grossFTE

\* a finished run in which the pool cut one initiative below its gross and
\* a safety cap cut another
C4_Witness ==
    /\ pc = "done"
    /\ \E i, j \in AuditIdx :
          /\ i # j
          /\ "safety_capped" \in DOMAIN audit_trail[i]
          /\ "safety_capped" \in DOMAIN audit_trail[j]
          /\ audit_trail[i].pool_capped
          /\ 0 < audit_trail[i].net_fte
          /\ audit_trail[i].net_fte < audit_trail[i].gross_fte
          /\ ~audit_trail[j].pool_capped
          /\ audit_trail[j].safety_capped
          /\ 0 < audit_trail[j].net_fte

\* the initiative the next loop iteration processes, and that iteration
Stepping == pc = "cascade" /\ pos' = pos + 1
CurK == sorted_inits[pos]
Cur == initiatives[CurK]

\* the FTE a loop iteration adds to the role ledgers
Allocated == SumOver([r \in RoleNames |-> role_cum'[r] - role_cum[r]], RoleNames)

\* min(0.20 x affected_fte, INITIATIVE_FTE_CAPS.get(lever, 0.12) x affected_fte), in FU
InitCapFte(init) ==
    LET aff == Headcount(Roles, init.roles)
        cap == IF init.lever \in DOMAIN INITIATIVE_FTE_CAPS
               THEN INITIATIVE_FTE_CAPS[init.lever] ELSE DEFAULT_TYPE_CAP
    IN  (Min(cap, ABSOLUTE_SINGLE_INIT_CAP) * aff * Hundredth) \div 10

\* C5 as stated: the net FTE reduction reported for an initiative is at most
\* min(0.20 x affected_fte, INITIATIVE_FTE_CAPS[lever] x affected_fte).
C5_ReportedNetWithinCaps ==
    \A k \in 1..Len(initiatives) :
        initiatives[k].annotated => initiatives[k]._fteImpact <= InitCapFte(initiatives[k])

\* C5 (amended): the reduction a loop iteration allocates to the role ledgers
\* is at most min(0.20 x affected_fte, INITIATIVE_FTE_CAPS.get(lever, 0.12) x
\* affected_fte); the reported _fteImpact is that reduction rounded to 0.1 and
\* exceeds the bound by at most 0.05 FTE.
C5_AllocatedWithinCaps ==
    [][Stepping =>
          /\ Allocated <= InitCapFte(Cur)
          /\ initiatives'[CurK]._fteImpact = Round1FU(Allocated)
          /\ 2 * (initiatives'[CurK]._fteImpact - InitCapFte(Cur)) <= Tenth]_vars

\* a finished run with a transfer_reduction initiative held to the default cap
\* and an initiative whose reported reduction lies above its cap
C5_Witness ==
    /\ pc = "done"
    /\ \E k \in 1..Len(initiatives) :
          /\ initiatives[k].lever = "transfer_reduction"
          /\ initiatives[k]._capApplied
          /\ initiatives[k]._fteImpact > 0
    /\ \E k \in 1..Len(initiatives) :
          initiatives[k].annotated /\ initiatives[k]._fteImpact > InitCapFte(initiatives[k])

\* C6: consume_pool on a lever that maps to no pool returns consumed_fte = 0
\* and leaves every pool unchanged; the initiative ends with net FTE 0 and
\* nothing is allocated for it.
C6_UnknownLeverFailsClosed ==
    [][(/\ Stepping
        /\ Cur.lever # "cost_reduction"
        /\ Cur.lever \notin DOMAIN pools
        /\ Headcount(Roles, Cur.roles) > 0) =>
          /\ pools' = pools
          /\ pool_log' = Append(pool_log, [lever |-> Cur.lever, consumed_fte |-> 0])
          /\ initiatives'[CurK]._fteImpact = 0
          /\ initiatives'[CurK]._poolConsumed = 0
          /\ role_cum' = role_cum]_vars

\* a finished run that processed an initiative on an unknown lever with a
\* positive gross impact next to an initiative that drew on a pool
C6_Witness ==
    /\ pc = "done"
    /\ \E k \in 1..Len(initiatives) :
          /\ initiatives[k].lever = "quality_uplift"
          /\ initiatives[k].annotated
          /\ initiatives[k]._grossFTE > 0
          /\ initiatives[k]._fteImpact = 0
    /\ \E i \in 1..Len(pool_log) : pool_log[i].lever = "quality_uplift"
    /\ \E i \in 1..Len(pool_log) : pool_log[i].consumed_fte > 0

\* C7: processing a location-lever (cost_reduction) initiative ends with
\* _fteImpact = 0 and leaves role_cum and every role's yearly reduction
\* entries unchanged, on the fallback-gross path too.
C7_LocationLeavesLedgers ==
    [][(Stepping /\ Cur.lever = "cost_reduction") =>
          /\ initiatives'[CurK]._fteImpact = 0
          /\ role_cum' = role_cum
          /\ role_impact' = role_impact]_vars

\* the audit entry a loop iteration has just appended
LastAudit == audit_trail'[Len(audit_trail')]
Migrating ==
    /\ Stepping
    /\ Cur.lever = "cost_reduction"
    /\ Len(audit_trail') = Len(audit_trail) + 1
    /\ LastAudit.mechanism = "Location"
    /\ LastAudit.gross_migrated > 0

\* total _poolConsumed of the location initiatives processed so far
MigratedTotal ==
    LET loc == { k \in 1..Len(initiatives) :
                    initiatives[k].annotated /\ initiatives[k].lever = "cost_reduction" }
    IN  SumOver([k \in loc |-> initiatives[k]._poolConsumed], loc)

\* C8: processing a location initiative with gross migrated FTE > 0 lowers
\* the location pool's remaining_fte by min(gross migrated, remaining_fte),
\* and the migrated FTE of a run's location initiatives total at most the
\* location pool's ceiling_fte.
C8_LocationDebitsPool ==
    /\ [][Migrating =>
             pools'["location"].remaining_fte =
                 pools["location"].remaining_fte
                 - Min(LastAudit.gross_migrated, pools["location"].remaining_fte)]_vars
    /\ [](pc \in {"cascade", "done"} => MigratedTotal <= pools["location"].ceiling_fte)

\* a precedes b in the processing order: layer, then lever priority, then
\* descending matchScore
LayerRank(x) ==
    CASE x.layer = "AI & Automation" -> 0
      [] x.layer = "Operating Model" -> 1
      [] x.layer = "Location Strategy" -> 2
      [] OTHER -> 9
LeverRank(x) ==
    IF \E i \in 1..Len(LEVER_ORDER) : LEVER_ORDER[i] = x.lever
    THEN (CHOOSE i \in 1..Len(LEVER_ORDER) : LEVER_ORDER[i] = x.lever) - 1
    ELSE 9
Precedes(a, b) ==
    \/ LayerRank(a) < LayerRank(b)
    \/ LayerRank(a) = LayerRank(b) /\ LeverRank(a) < LeverRank(b)
    \/ LayerRank(a) = LayerRank(b) /\ LeverRank(a) = LeverRank(b)
       /\ a.matchScore > b.matchScore

\* ids of the initiatives processed so far that have affected roles, and
\* levers of those that went to consume_pool, in processing order
ProcessedIds ==
    LET done == SubSeq(sorted_inits, 1, pos - 1)
        HasRoles(k) == Headcount(Roles, initiatives[k].roles) > 0
        kept == SelectSeq(done, HasRoles)
    IN  [i \in 1..Len(kept) |-> initiatives[kept[i]].id]
ProcessedLevers ==
    LET done == SubSeq(sorted_inits, 1, pos - 1)
        Netted(k) == /\ Headcount(Roles, initiatives[k].roles) > 0
                     /\ initiatives[k]._mechanism # "Location"
        kept == SelectSeq(done, Netted)
    IN  [i \in 1..Len(kept) |-> initiatives[kept[i]].lever]

\* C9: the enabled initiatives are processed in the order layer, then lever
\* priority, then descending matchScore: the processing sequence holds each
\* enabled initiative once, no initiative comes after one it precedes, the
\* initiatives annotated so far are exactly those before the loop position,
\* and the audit trail and the pool consumptions follow the same sequence.
C9_ProcessingOrder ==
    pc \in {"cascade", "done"} =>
        /\ \A k \in 1..Len(initiatives) :
              initiatives[k].enabled <=>
                  \E i \in 1..Len(sorted_inits) : sorted_inits[i] = k
        /\ \A i, j \in 1..Len(sorted_inits) :
              i < j => /\ sorted_inits[i] # sorted_inits[j]
                       /\ ~Precedes(initiatives[sorted_inits[j]],
                                    initiatives[sorted_inits[i]])
        /\ (runs = 1 =>
              \A i \in 1..Len(sorted_inits) :
                  initiatives[sorted_inits[i]].annotated <=> i < pos)
        /\ [i \in 1..Len(audit_trail) |-> audit_trail[i].id] = ProcessedIds
        /\ [i \in 1..Len(pool_log) |-> pool_log[i].lever] = ProcessedLevers

\* a finished run whose processing order differs from the input order and
\* was decided by the score between two initiatives of one layer and lever
C9_Witness ==
    /\ pc = "done"
    /\ Len(audit_trail) >= 2
    /\ \E i, j \in 1..Len(initiatives) :
          /\ i < j
          /\ initiatives[i].enabled /\ initiatives[j].enabled
          /\ initiatives[i].layer = initiatives[j].layer
          /\ initiatives[i].lever = initiatives[j].lever
          /\ initiatives[i].matchScore < initiatives[j].matchScore
          /\ \E a, b \in 1..Len(audit_trail) :
                /\ a < b
                /\ audit_trail[a].id = initiatives[j].id
                /\ audit_trail[b].id = initiatives[i].id

\* C10: a second invocation on the same data and the initiative list as
\* annotated by the first returns the same pool remainders, role ledgers,
\* pool consumption sequence, audit trail, per-initiative net FTE and yearly
\* projection as the first.
C10_Stateless ==
    (pc = "done" /\ previous.valid) => RunResult = previous

\* a second invocation has finished after a first that consumed from a pool
\* and reduced FTE
C10_Witness ==
    /\ pc = "done"
    /\ runs >= 2
    /\ previous.valid
    /\ \E i \in 1..Len(previous.pool_log) : previous.pool_log[i].consumed_fte > 0
    /\ \E i \in 1..Len(initiatives) : previous.net_fte[i] > 0
    /\ \E k \in DOMAIN pools : pools[k].remaining_fte < pools[k].ceiling_fte

\* a compute_pools call has just returned its result
Computed == pc = "pure" /\ Len(results') = Len(results) + 1
NewPools == results'[Len(results')]

C12_SubRunsOnCopies ==
    stack # << >> =>
        /\ ~aliased
        /\ \A k \in DOMAIN stack[1].params : k \in DOMAIN params => params[k] = stack[1].params[k]

\* C13: sub-runs are started with both skip flags set and start no sub-run
\* of their own: the nesting depth never exceeds 1, a top-level call executes
\* the pipeline at most 1 + 2 + 12 times, and it returns.
C13_BoundedRecursion ==
    /\ [](/\ Len(stack) <= 1
          /\ executions <= 1 + 2 + 12
          /\ (stack # << >> => skip.scenarios /\ skip.sensitivity))
    /\ <>(pc = "returned")

\* a top-level call has returned after the base run, both scenario runs and
\* all twelve sensitivity runs
C13_Witness ==
    /\ pc = "returned"
    /\ executions = 15
    /\ Len(sub_results) = 14
    /\ \E i \in 1..Len(initiatives) : initiatives[i]._fteImpact > 0

\* C14: when compute_pools raises, every lever reports an empty pool and
\* every initiative the cascade processes, whatever its lever, ends with net
\* FTE 0 and annual saving 0.
C14_PoolFailureCapsAll ==
    [][(compute_pools_raises(params) /\ Stepping) =>
          /\ pools = << >>
          /\ pools' = << >>
          /\ initiatives'[CurK]._fteImpact = 0
          /\ initiatives'[CurK]._annualSaving = 0]_vars


\* ------------------------------------------- gross computation failures
\* Entries whose channels field was overridden with a nested list, so that
\* compute_gross_impact raises for them, next to unchanged library entries.
WithNestedChannels(ids) ==
    { [t EXCEPT !.channels_ok = FALSE] : t \in { e \in Templates : e.id \in ids } }

FallbackTemplates ==
    WithNestedChannels({"AI01", "OP10", "LS04"})
        \cup { e \in Templates : e.id \in {"OP13", "OP01", "LS07"} }

\* lists of distinct entries holding at least one entry whose gross raises
FallbackLists ==
    UNION { { s \in [1..n -> FallbackTemplates] :
                /\ \A i, j \in 1..n : i # j => s[i].id # s[j].id
                /\ \E i \in 1..n : gross_raises(s[i]) }
            : n \in 1..MaxInits }

InitFallback ==
    /\ params \in ParamsChoices
    /\ initiatives \in FallbackLists
    /\ pools = << >>
    /\ role_cum = ZeroLedger
    /\ role_impact = ZeroYearly(BaseParams.horizon)
    /\ audit_trail = << >>
    /\ pool_log = << >>
    /\ sorted_inits = << >>
    /\ pos = 1
    /\ yearly = << >>
    /\ pc = "ready"
    /\ runs = 0
    /\ previous = NoResult
    /\ calls = 0
    /\ ret = NoReturn
    /\ AuxIdle

SpecFallback == InitFallback /\ [][Next]_vars

\* a loop iteration whose compute_gross_impact call raises
GrossFails == Stepping /\ Headcount(Roles, Cur.roles) > 0 /\ gross_raises(Cur)

\* the enabled initiatives with affected roles that the finished loop has an
\* audit entry for
Audited == { k \in 1..Len(initiatives) :
                \E i \in AuditIdx : audit_trail[i].id = initiatives[k].id }

RateUnit == 10000
guess == 1000
max_iter == 100
RATE_MIN == 0 - 5000
RATE_MAX == 100000
Abs(x) == IF x < 0 THEN 0 - x ELSE x

RECURSIVE over_rate_pow(_, _, _)
\* x / (1 + rate) ** t
over_rate_pow(x, rate, t) ==
    IF t = 0 THEN x
    ELSE over_rate_pow(RoundMulDiv(x, RateUnit, RateUnit + rate), rate, t - 1)

\* sum(cf/(1+rate)**t for t,cf in enumerate(cashflows)); index i holds t = i - 1
npv_at(cashflows, rate) ==
    SumOver([i \in SeqIdx(cashflows) |-> over_rate_pow(cashflows[i], rate, i - 1)],
            SeqIdx(cashflows))

\* sum(-t*cf/(1+rate)**(t+1) for t,cf in enumerate(cashflows))
dnpv_at(cashflows, rate) ==
    SumOver([i \in SeqIdx(cashflows) |->
                over_rate_pow((0 - (i - 1)) * cashflows[i], rate, i)],
            SeqIdx(cashflows))

\* npv/dnpv as a rate
newton_delta(npv, dnpv) ==
    IF dnpv > 0 THEN RoundMulDiv(npv, RateUnit, dnpv)
    ELSE RoundMulDiv(0 - npv, RateUnit, 0 - dnpv)

\* the update without the clamp
clamp_rate_open(rate) == rate
\* max(-0.5, min(10.0, rate))
clamp_rate(rate) == Max(RATE_MIN, Min(RATE_MAX, rate))

\* round(rate*100, 1), in tenths of a percent
round_pct(rate) == RoundDiv(rate, 10)

CashValues == {0 - 1000, 0, 600}
CashflowLists == UNION { [1..n -> CashValues] : n \in 0..MaxFlows }

InitIrr ==
    /\ fn_args \in { [cashflows |-> c] : c \in CashflowLists }
    /\ fn_local = NoLocal
    /\ fn_value = NoValue
    /\ pc = "irr_call"
    /\ params = BaseParams
    /\ initiatives = << >>
    /\ pools = << >>
    /\ role_cum = ZeroLedger
    /\ role_impact = ZeroYearly(BaseParams.horizon)
    /\ audit_trail = << >>
    /\ pool_log = << >>
    /\ sorted_inits = << >>
    /\ pos = 1
    /\ yearly = << >>
    /\ runs = 0
    /\ previous = NoResult
    /\ calls = 0
    /\ ret = NoReturn
    /\ results = << >>
    /\ in_queues = << >>
    /\ stack = << >>
    /\ skip = NoSkip
    /\ sub = 0
    /\ aliased = FALSE
    /\ sub_results = << >>
    /\ executions = 0
    /\ data_queues = Queues

\* everything but the call under way
Pipeline == <<data_queues, params, initiatives, pools, role_cum, role_impact, audit_trail,
              pool_log,
              sorted_inits, pos, yearly, runs, previous, calls, ret, results, in_queues,
              stack, skip, sub, aliased, sub_results, executions>>

\* "if not cashflows or all(cf==0 ...): return 0.0", else rate = guess
IrrEnter ==
    /\ pc = "irr_call"
    /\ LET cashflows == fn_args.cashflows
       IN  IF cashflows = << >> \/ \A i \in SeqIdx(cashflows) : cashflows[i] = 0
           THEN /\ fn_value' = [returned |-> TRUE, irr |-> 0]
                /\ pc' = "irr_returned"
                /\ UNCHANGED fn_local
           ELSE /\ fn_local' = [rate |-> guess, iter |-> 0, broke |-> FALSE]
                /\ pc' = "irr_loop"
                /\ UNCHANGED fn_value
    /\ UNCHANGED <<fn_args, Pipeline>>

\* one pass of "for _ in range(max_iter)"
NewtonStep ==
    /\ pc = "irr_loop"
    /\ ~fn_local.broke
    /\ fn_local.iter < max_iter
    /\ LET rate == fn_local.rate
           npv == npv_at(fn_args.cashflows, rate)
           dnpv == dnpv_at(fn_args.cashflows, rate)
       IN  fn_local' =
               IF dnpv = 0
               THEN [fn_local EXCEPT !.iter = @ + 1, !.broke = TRUE]
               ELSE [rate |-> clamp_rate(rate - newton_delta(npv, dnpv)),
                     iter |-> fn_local.iter + 1,
                     broke |-> Abs(npv) < 10]
    /\ UNCHANGED <<pc, fn_args, fn_value, Pipeline>>

\* the loop is left by break or exhaustion: return round(rate*100, 1)
IrrReturn ==
    /\ pc = "irr_loop"
    /\ fn_local.broke \/ fn_local.iter >= max_iter
    /\ fn_value' = [returned |-> TRUE, irr |-> round_pct(fn_local.rate)]
    /\ pc' = "irr_returned"
    /\ UNCHANGED <<fn_args, fn_local, Pipeline>>

NextIrr == IrrEnter \/ NewtonStep \/ IrrReturn
SpecIrr == InitIrr /\ [][NextIrr]_vars
\* the interpreter runs the call to its end
SpecIrrFair == SpecIrr /\ WF_vars(IrrEnter) /\ WF_vars(NewtonStep) /\ WF_vars(IrrReturn)

\* C16: _estimate_irr ends after at most max_iter Newton iterations with a
\* value in [-50, 1000] percent, 0.0 for an empty or all-zero cashflow list;
\* after every update the rate lies in [-0.5, 10.0], so 1 + rate is never 0.
C16_IrrBounded ==
    /\ [](pc = "irr_loop" =>
            /\ fn_local.iter <= max_iter
            /\ RateUnit + fn_local.rate > 0
            /\ fn_local.iter > 0 =>
                  (fn_local.rate >= 0 - RateUnit \div 2 /\ fn_local.rate <= 10 * RateUnit))
    /\ [](fn_value.returned =>
            /\ fn_value.irr >= 0 - 500
            /\ fn_value.irr <= 10000
            /\ LET cashflows == fn_args.cashflows
               IN  (cashflows = << >> \/ \A i \in SeqIdx(cashflows) : cashflows[i] = 0)
                       => fn_value.irr = 0)
    /\ <>(fn_value.returned)

\* the call returned a rate it reached through several Newton updates
C16_Witness ==
    /\ fn_value.returned
    /\ fn_local # NoLocal
    /\ fn_local.iter >= 3
    /\ fn_local.broke
    /\ fn_value.irr > 0
    /\ fn_value.irr # round_pct(guess)


\* ------------------------------------------------------- _s_curve_ramp
\* The caller walks the months from before go-live to past the end of the
\* ramp and calls _s_curve_ramp for each; fn_local.prev is the value returned
\* for the month before.
RampUnit == 1000000
InitRamp ==
    /\ fn_args \in { [months_since_golive |-> 0 - 1, ramp_months |-> r] : r \in 1..MaxRamp }
    /\ fn_local = [prev |-> 0]
    /\ fn_value = NoValue
    /\ pc = "ramp_call"
    /\ params = BaseParams
    /\ initiatives = << >>
    /\ pools = << >>
    /\ role_cum = ZeroLedger
    /\ role_impact = ZeroYearly(BaseParams.horizon)
    /\ audit_trail = << >>
    /\ pool_log = << >>
    /\ sorted_inits = << >>
    /\ pos = 1
    /\ yearly = << >>
    /\ runs = 0
    /\ previous = NoResult
    /\ calls = 0
    /\ ret = NoReturn
    /\ results = << >>
    /\ in_queues = << >>
    /\ stack = << >>
    /\ skip = NoSkip
    /\ sub = 0
    /\ aliased = FALSE
    /\ sub_results = << >>
    /\ executions = 0
    /\ data_queues = Queues

RampCall ==
    /\ pc = "ramp_call"
    /\ fn_value' = [returned |-> TRUE,
                    ramp |-> _s_curve_ramp(fn_args.months_since_golive, fn_args.ramp_months)]
    /\ pc' = "ramp_returned"
    /\ UNCHANGED <<fn_args, fn_local, Pipeline>>

\* the caller moves on to the next month
NextMonth ==
    /\ pc = "ramp_returned"
    /\ fn_args.months_since_golive < fn_args.ramp_months + 2
    /\ fn_args' = [fn_args EXCEPT !.months_since_golive = @ + 1]
    /\ fn_local' = [prev |-> fn_value.ramp]
    /\ fn_value' = NoValue
    /\ pc' = "ramp_call"
    /\ UNCHANGED Pipeline

NextRamp == RampCall \/ NextMonth
SpecRamp == InitRamp /\ [][NextRamp]_vars

\* C17: for every ramp_months >= 1 the ramp is 0 at month 0, lies in
\* [0.93, 1.0] at month ramp_months, never falls from one month to the next,
\* and always lies in [0, 1].
C17_RampMonotone ==
    (pc = "ramp_returned") =>
        /\ 0 <= fn_value.ramp /\ fn_value.ramp <= RampUnit
        /\ fn_local.prev <= fn_value.ramp
        /\ fn_args.months_since_golive = 0 => fn_value.ramp = 0
        /\ fn_args.months_since_golive = fn_args.ramp_months =>
              (100 * fn_value.ramp >= 93 * RampUnit)

\* the ramp of a 12-month curve has returned a value strictly between the
\* one for the month before and 1, in the steep part of the curve
C17_Witness ==
    /\ pc = "ramp_returned"
    /\ fn_args.ramp_months = 12
    /\ fn_args.months_since_golive = 6
    /\ fn_local.prev > 0
    /\ fn_value.ramp > fn_local.prev + 100000
    /\ fn_value.ramp < RampUnit


\* the loop iteration takes the branch with is_location false and reaches
\* the per-role cap step
CapStep ==
    /\ Stepping
    /\ Len(audit_trail') = Len(audit_trail) + 1
    /\ LastAudit.mechanism # "Location"

\* red of the iteration: min(net_fte, type_cap, abs_cap, avail), at least 0,
\* with net_fte the amount consume_pool has just granted
RedOfStep ==
    LET tot_aff == Headcount(Roles, Cur.roles)
        net_fte == pool_log'[Len(pool_log')].consumed_fte
    IN  Max(0, Min(Min3(net_fte, type_cap(Cur.lever, tot_aff), abs_cap(tot_aff)),
                   avail(Affected(Cur), role_cum)))

TotalCum == SumOver([r \in RoleNames |-> role_cum[r]], RoleNames)
TotalNet == SumOver([i \in AuditIdx |-> audit_trail[i].net_fte], AuditIdx)

FactorUnit == 10000
StartMonths == {1, 4, 7, 11, 13, 20, 30}
EndMonths == {0, 2, 6, 12, 14, 24, 40}
RampChoices == {1, 3, 6, 12, 18}

InitFactors ==
    /\ fn_args \in [start_month : StartMonths, end_month : EndMonths,
                    horizon_years : 1..MaxHorizon, ramp_months : RampChoices]
    /\ fn_local = NoLocal
    /\ fn_value = NoValue
    /\ pc = "factors_call"
    /\ params = BaseParams
    /\ initiatives = << >>
    /\ pools = << >>
    /\ role_cum = ZeroLedger
    /\ role_impact = ZeroYearly(BaseParams.horizon)
    /\ audit_trail = << >>
    /\ pool_log = << >>
    /\ sorted_inits = << >>
    /\ pos = 1
    /\ yearly = << >>
    /\ runs = 0
    /\ previous = NoResult
    /\ calls = 0
    /\ ret = NoReturn
    /\ results = << >>
    /\ in_queues = << >>
    /\ stack = << >>
    /\ skip = NoSkip
    /\ sub = 0
    /\ aliased = FALSE
    /\ sub_results = << >>
    /\ executions = 0
    /\ data_queues = Queues

FactorsCall ==
    /\ pc = "factors_call"
    /\ fn_value' = [returned |-> TRUE,
                    yearly_factors |->
                        _compute_yearly_factors(fn_args.start_month, fn_args.end_month,
                                                fn_args.horizon_years, fn_args.ramp_months)]
    /\ pc' = "factors_returned"
    /\ UNCHANGED <<fn_args, fn_local, Pipeline>>

\* the caller asks again with the benefit end moved by a month
FactorsAgain ==
    /\ pc = "factors_returned"
    /\ fn_args.end_month > 0
    /\ fn_args.end_month < 12 * fn_args.horizon_years
    /\ fn_args' = [fn_args EXCEPT !.end_month = @ + 1]
    /\ fn_value' = NoValue
    /\ pc' = "factors_call"
    /\ UNCHANGED <<fn_local, Pipeline>>

NextFactors == FactorsCall \/ FactorsAgain
SpecFactors == InitFactors /\ [][NextFactors]_vars

\* the benefit end month in force: the horizon end when none is given
BenefitEnd ==
    IF fn_args.end_month <= 0 \/ fn_args.end_month > 12 * fn_args.horizon_years
    THEN 12 * fn_args.horizon_years ELSE fn_args.end_month
\* the months of year yr inside [start_month, benefit end]
ActiveMonths(yr) ==
    { m \in 1..(12 * fn_args.horizon_years) :
         /\ (m - 1) \div 12 = yr - 1
         /\ fn_args.start_month <= m
         /\ m <= BenefitEnd }
\* sum of ramp(t) over the active months of year yr, t counted from start_month
RampSum(yr) ==
    SumOver([m \in ActiveMonths(yr) |->
                _s_curve_ramp(m - fn_args.start_month + 1, fn_args.ramp_months)],
            ActiveMonths(yr))

\* C19 as stated: one factor per horizon year, 0 for a year without active
\* months, and every factor within [0, active_months / 12] and at most 1.
C19_FactorWithinActiveShare ==
    (pc = "factors_returned") =>
        /\ Len(fn_value.yearly_factors) = fn_args.horizon_years
        /\ \A yr \in 1..fn_args.horizon_years :
              LET f == fn_value.yearly_factors[yr]
                  n == Cardinality(ActiveMonths(yr))
              IN  /\ n = 0 => f = 0
                  /\ 0 <= f
                  /\ 12 * f <= n * FactorUnit
                  /\ f <= FactorUnit

\* C19 (amended): one factor per horizon year, 0 for a year without active
\* months; every factor is (mean ramp over the active months) x
\* (active_months / 12) rounded to four decimals, so it lies in
\* [0, round(active_months / 12, 4)], above active_months / 12 by less than
\* 0.00005, and is at most 1.
C19_FactorIsRoundedShare ==
    (pc = "factors_returned") =>
        /\ Len(fn_value.yearly_factors) = fn_args.horizon_years
        /\ \A yr \in 1..fn_args.horizon_years :
              LET f == fn_value.yearly_factors[yr]
                  n == Cardinality(ActiveMonths(yr))
              IN  /\ n = 0 => f = 0
                  /\ 0 <= f
                  /\ f = RoundDiv(RampSum(yr), 12 * (RampUnit \div FactorUnit))
                  /\ f <= RoundDiv(n * FactorUnit, 12)
                  /\ 2 * (12 * f - n * FactorUnit) < 12
                  /\ f <= FactorUnit

\* factors were returned for a benefit window that starts and ends inside
\* the horizon: a year before the window with factor 0, a year cut by the
\* end month whose factor is the rounded share above active_months / 12
C19_Witness ==
    /\ pc = "factors_returned"
    /\ fn_args.horizon_years = 3
    /\ fn_args.start_month = 13
    /\ fn_args.end_month = 26
    /\ fn_value.yearly_factors[1] = 0
    /\ fn_value.yearly_factors[2] > 0
    /\ fn_value.yearly_factors[2] < FactorUnit
    /\ 12 * fn_value.yearly_factors[3] > 2 * FactorUnit


\* --------------------------------------------------- investment sizing
\* run_waterfall, "V7: calibrated investment model". Money is in cents,
\* scales and discounts per mille. fn_args holds the initiative list and
\* data['techInvestment']; fn_local the loop's variables.
NoFamily == "none"
\* _init_family.get(iid), from _FAMILIES
init_family(iid) ==
    CASE iid \in {"AI01", "AI04", "AI09", "AI10", "AI14", "AI25", "AI18"} -> "conv_ai"
      [] iid \in {"AI02", "AI05", "AI27", "AI06"} -> "assist_ai"
      [] iid \in {"AI07", "AI21", "AI15"} -> "analytics"
      [] iid \in {"AI08", "AI19"} -> "knowledge"
      [] iid \in {"AI12", "OP04", "OP11"} -> "wfm"
      [] iid \in {"AI22", "AI16"} -> "crm_ext"
      [] iid \in {"AI13", "AI28"} -> "rpa"
      [] iid \in {"AI03", "AI23", "AI24", "AI11"} -> "ccaas"
      [] OTHER -> NoFamily

\* _INIT_PLATFORM.get(iid)
init_platform(iid) ==
    CASE iid \in {"AI01", "AI04", "AI09", "AI10", "AI14", "AI25", "AI18"} -> "chatbot"
      [] iid \in {"AI02", "AI05", "AI27"} -> "agent assist"
      [] iid \in {"AI06", "AI15", "AI21"} -> "speech analytics"
      [] iid = "AI07" -> "qa tool"
      [] iid \in {"AI08", "AI19"} -> "knowledge base"
      [] iid \in {"AI12", "OP04", "OP11"} -> "wfm"
      [] iid \in {"AI22", "AI16"} -> "crm"
      [] iid \in {"AI13", "AI28"} -> "rpa"
      [] iid \in {"AI03", "AI23", "AI24", "AI11"} -> "ccaas platform"
      [] iid \in {"OP16", "OP09"} -> "bi/reporting"
      [] OTHER -> "none"

\* max(0.30, min(2.0, sqrt(totalFTE / 3000))) for the 8 FTE of Roles
size_scale == 300
\* max(0.50, 0.40 + 0.60 * size_scale)
impl_scale == Max(500, 400 + (600 * size_scale) \div 1000)

\* _stack_cov[cat]: the highest coverage (percent) among the live entries
stack_cov(tech_stack, cat) ==
    LET live == { k \in SeqIdx(tech_stack) :
                     /\ tech_stack[k].category = cat
                     /\ tech_stack[k].status \in {"active", "deploying", "pilot"} }
    IN  IF live = {} THEN 0
        ELSE CHOOSE c \in { tech_stack[k].coverage : k \in live } :
                 \A k \in live : tech_stack[k].coverage <= c

\* _ts_discount(iid), per mille
_ts_discount(tech_stack, iid) ==
    LET plat == init_platform(iid)
        cov == stack_cov(tech_stack, plat)
    IN  IF plat = "none" THEN 0
        ELSE IF cov >= 70 THEN 500 ELSE IF cov >= 40 THEN 250 ELSE 0

\* cd.get(eff, {...}) with no cost_defaults sheet, in dollars
DefaultCost == [techCost |-> 100000, implCost |-> 50000, annualCost |-> 30000]
\* data['techInvestment']['costs']: one priced initiative
TechCosts == [AI01 |-> [techCost |-> 200000, implCost |-> 80000, annualCost |-> 60000]]
raw_cost(iid) == IF iid \in DOMAIN TechCosts THEN TechCosts[iid] ELSE DefaultCost

\* s_tech after size scaling and the tech stack discount, in cents
scaled_tech(tech_stack, iid) ==
    MulDiv(MulDiv(raw_cost(iid).techCost * 100, size_scale, 1000),
           1000 - _ts_discount(tech_stack, iid), 1000)
\* s_impl, in cents
scaled_impl(iid) == MulDiv(raw_cost(iid).implCost * 100, impl_scale, 1000)
\* s_annual after size scaling and half the tech stack discount, in cents
scaled_annual(tech_stack, iid) ==
    MulDiv(MulDiv(raw_cost(iid).annualCost * 100, size_scale, 1000),
           2000 - _ts_discount(tech_stack, iid), 2000)

\* sorted(enabled, key=score): ascending order
by_score_ascending(inits, a, b) ==
    \/ inits[a].score < inits[b].score
    \/ inits[a].score = inits[b].score /\ a < b
\* sorted(enabled, key=score, reverse=True): stable, ties keep list order
by_score(inits, a, b) ==
    \/ inits[a].score > inits[b].score
    \/ inits[a].score = inits[b].score /\ a < b

\* the indices of the enabled initiatives in processing order
InvestOrder(inits) ==
    LET enabled == { k \in SeqIdx(inits) : inits[k].enabled }
    IN  CHOOSE o \in [1..Cardinality(enabled) -> enabled] :
            \A x, y \in 1..Cardinality(enabled) : x < y => by_score(inits, o[x], o[y])

InvestEntry(id, score, enabled) == [id |-> id, score |-> score, enabled |-> enabled]
InvestTemplates ==
    { InvestEntry("AI01", 61, TRUE), InvestEntry("AI04", 75, TRUE),
      InvestEntry("AI04", 61, TRUE), InvestEntry("AI04", 90, FALSE),
      InvestEntry("AI09", 30, TRUE), InvestEntry("AI06", 39, TRUE),
      InvestEntry("AI02", 52, TRUE), InvestEntry("OP13", 73, TRUE),
      InvestEntry("LS01", 45, TRUE) }
InvestLists ==
    UNION { { l \in [1..n -> InvestTemplates] :
                \A x, y \in 1..n : x # y => l[x].id # l[y].id }
            : n \in 1..MaxInvest }
TechStacks ==
    { << >>,
      <<[category |-> "chatbot", coverage |-> 80, status |-> "active"]>>,
      <<[category |-> "chatbot", coverage |-> 80, status |-> "retired"],
        [category |-> "agent assist", coverage |-> 50, status |-> "pilot"]>> }

InitInvest ==
    /\ fn_args \in [initiatives : InvestLists, tech_stack : TechStacks]
    /\ fn_local = NoLocal
    /\ fn_value = NoValue
    /\ pc = "invest_call"
    /\ params = BaseParams
    /\ initiatives = << >>
    /\ pools = << >>
    /\ role_cum = ZeroLedger
    /\ role_impact = ZeroYearly(BaseParams.horizon)
    /\ audit_trail = << >>
    /\ pool_log = << >>
    /\ sorted_inits = << >>
    /\ pos = 1
    /\ yearly = << >>
    /\ runs = 0
    /\ previous = NoResult
    /\ calls = 0
    /\ ret = NoReturn
    /\ results = << >>
    /\ in_queues = << >>
    /\ stack = << >>
    /\ skip = NoSkip
    /\ sub = 0
    /\ aliased = FALSE
    /\ sub_results = << >>
    /\ executions = 0
    /\ data_queues = Queues

\* _family_costed = set(); tech_inv = 0; ann_maint = 0; inv_items = []
InvestStart ==
    /\ pc = "invest_call"
    /\ fn_local' = [order |-> InvestOrder(fn_args.initiatives), at |-> 1,
                    _family_costed |-> {}, tech_inv |-> 0, ann_maint |-> 0,
                    inv_items |-> << >>]
    /\ pc' = "invest_loop"
    /\ UNCHANGED <<fn_args, fn_value, Pipeline>>

\* one pass of "for i in sorted(enabled, key=score, reverse=True)"
InvestStep ==
    /\ pc = "invest_loop"
    /\ fn_local.at <= Len(fn_local.order)
    /\ LET i == fn_args.initiatives[fn_local.order[fn_local.at]]
           iid == i.id
           fam == init_family(iid)
           is_pooled == fam # NoFamily /\ fam \in fn_local._family_costed
           s_tech == IF is_pooled
                     THEN MulDiv(scaled_tech(fn_args.tech_stack, iid), 25, 100)
                     ELSE scaled_tech(fn_args.tech_stack, iid)
           s_annual == IF is_pooled
                       THEN MulDiv(scaled_annual(fn_args.tech_stack, iid), 40, 100)
                       ELSE scaled_annual(fn_args.tech_stack, iid)
           one_time == RoundDiv(s_tech + scaled_impl(iid), 100)
           recurring == RoundDiv(s_annual, 100)
       IN  fn_local' =
               [fn_local EXCEPT
                   !.at = @ + 1,
                   !._family_costed = IF fam # NoFamily THEN @ \cup {fam} ELSE @,
                   !.tech_inv = @ + one_time,
                   !.ann_maint = @ + recurring,
                   !.inv_items = Append(@, [id |-> iid, oneTime |-> one_time,
                                            recurring |-> recurring,
                                            pooled |-> is_pooled])]
    /\ UNCHANGED <<pc, fn_args, fn_value, Pipeline>>

\* inv_items.sort(key=_inv_order): back into the order of the enabled list
InvestFinish ==
    /\ pc = "invest_loop"
    /\ fn_local.at > Len(fn_local.order)
    /\ LET items == fn_local.inv_items
           n == Len(items)
           place(id) == CHOOSE k \in SeqIdx(fn_args.initiatives) :
                            fn_args.initiatives[k].id = id
           sorted == CHOOSE o \in [1..n -> 1..n] :
                        /\ \A x, y \in 1..n : x # y => o[x] # o[y]
                        /\ \A x, y \in 1..n :
                              x < y => place(items[o[x]].id) < place(items[o[y]].id)
       IN  fn_value' = [returned |-> TRUE,
                        inv_items |-> [x \in 1..n |-> items[sorted[x]]],
                        tech_inv |-> fn_local.tech_inv,
                        ann_maint |-> fn_local.ann_maint]
    /\ pc' = "invest_returned"
    /\ UNCHANGED <<fn_args, fn_local, Pipeline>>

NextInvest == InvestStart \/ InvestStep \/ InvestFinish
SpecInvest == InitInvest /\ [][NextInvest]_vars


\* the entry of the handed list with this id
InvestInit(id) ==
    fn_args.initiatives[CHOOSE k \in SeqIdx(fn_args.initiatives) :
                            fn_args.initiatives[k].id = id]
EnabledIds == { fn_args.initiatives[k].id :
                   k \in { j \in SeqIdx(fn_args.initiatives) : fn_args.initiatives[j].enabled } }
\* the enabled members of the shared-platform family of id
FamilyOf(id) == { m \in EnabledIds : init_family(m) = init_family(id) }
\* what an item pays at full cost and as a later member of its family (dollars)
FullOneTime(id) ==
    RoundDiv(scaled_tech(fn_args.tech_stack, id) + scaled_impl(id), 100)
FullRecurring(id) == RoundDiv(scaled_annual(fn_args.tech_stack, id), 100)
PooledOneTime(id) ==
    RoundDiv((scaled_tech(fn_args.tech_stack, id) * 25) \div 100 + scaled_impl(id), 100)
PooledRecurring(id) == RoundDiv((scaled_annual(fn_args.tech_stack, id) * 40) \div 100, 100)

\* C20: the sizing loop takes the enabled initiatives in descending score
\* order; of the enabled members of a shared-platform family exactly one, a
\* highest-scored one, pays its full cost and every other pays 25% of its
\* scaled, discounted tech cost and 40% of its annual cost; an initiative in
\* no family is never pooled and pays its full cost.
C20_FamilyPooling ==
    /\ (pc = "invest_loop") =>
          LET items == fn_local.inv_items
          IN  /\ \A x, y \in SeqIdx(items) :
                    x < y => InvestInit(items[x].id).score >= InvestInit(items[y].id).score
              /\ \A x \in SeqIdx(items) : \A id \in EnabledIds :
                    (\A y \in SeqIdx(items) : items[y].id # id)
                        => InvestInit(items[x].id).score >= InvestInit(id).score
              /\ \A x \in SeqIdx(items) : items[x].id \in EnabledIds
    /\ (pc = "invest_returned") =>
          LET items == fn_value.inv_items
              item(id) == items[CHOOSE x \in SeqIdx(items) : items[x].id = id]
          IN  /\ { items[x].id : x \in SeqIdx(items) } = EnabledIds
              /\ Len(items) = Cardinality(EnabledIds)
              /\ \A id \in EnabledIds :
                    IF init_family(id) = NoFamily
                    THEN /\ ~item(id).pooled
                         /\ item(id).oneTime = FullOneTime(id)
                         /\ item(id).recurring = FullRecurring(id)
                    ELSE /\ Cardinality({ m \in FamilyOf(id) : ~item(m).pooled }) = 1
                         /\ ~item(id).pooled =>
                               /\ \A m \in FamilyOf(id) :
                                     InvestInit(m).score <= InvestInit(id).score
                               /\ item(id).oneTime = FullOneTime(id)
                               /\ item(id).recurring = FullRecurring(id)
                         /\ item(id).pooled =>
                               /\ item(id).oneTime = PooledOneTime(id)
                               /\ item(id).recurring = PooledRecurring(id)

\* the sizing returned for a list in which a disabled member outscores its
\* family, the family's enabled anchor stands later in the list than a pooled
\* member, a tech stack discount applies and one initiative has no family
C20_Witness ==
    /\ pc = "invest_returned"
    /\ Len(fn_args.initiatives) = 3
    /\ fn_args.tech_stack # << >>
    /\ \E k \in SeqIdx(fn_args.initiatives) : ~fn_args.initiatives[k].enabled
    /\ Len(fn_value.inv_items) = 2
    /\ fn_value.inv_items[1].pooled
    /\ ~fn_value.inv_items[2].pooled
    /\ fn_value.inv_items[1].oneTime < FullOneTime(fn_value.inv_items[1].id)
    /\ _ts_discount(fn_args.tech_stack, fn_value.inv_items[1].id) > 0


\* ------------------------------------------ compute_gross_impact alone
\* compute_gross_impact called for one initiative on the annualized,
\* enriched queues of the data (a Voice and a Chat queue).
GrossLevers == {"deflection", "aht_reduction", "escalation_reduction", "repeat_reduction",
                "transfer_reduction", "cost_reduction"}
GrossChannels == { {"Voice"}, {"Chat"}, {"Voice", "Chat"}, {"Voice", "Email"}, {"IVR"},
                   {"Email", "Social"} }
GrossInits ==
    { Entry("AI03", AI, lever, impact, adoption, channels, {"Agent L1"}, 6, 100) :
        lever \in GrossLevers, impact \in {150, 300, 1000}, adoption \in {800, 1000},
        channels \in GrossChannels }

InitGross ==
    /\ fn_args \in [initiative : GrossInits, params : ParamsChoices]
    /\ fn_local = NoLocal
    /\ fn_value = NoValue
    /\ pc = "gross_call"
    /\ params = BaseParams
    /\ initiatives = << >>
    /\ pools = << >>
    /\ role_cum = ZeroLedger
    /\ role_impact = ZeroYearly(BaseParams.horizon)
    /\ audit_trail = << >>
    /\ pool_log = << >>
    /\ sorted_inits = << >>
    /\ pos = 1
    /\ yearly = << >>
    /\ runs = 0
    /\ previous = NoResult
    /\ calls = 0
    /\ ret = NoReturn
    /\ results = << >>
    /\ in_queues = << >>
    /\ stack = << >>
    /\ skip = NoSkip
    /\ sub = 0
    /\ aliased = FALSE
    /\ sub_results = << >>
    /\ executions = 0
    /\ data_queues = Queues

GrossCall ==
    /\ pc = "gross_call"
    /\ fn_value' = [returned |-> TRUE,
                    gross |-> compute_gross_impact(fn_args.initiative,
                                                   annual_queues(fn_args.params),
                                                   Roles, fn_args.params)]
    /\ pc' = "gross_returned"
    /\ UNCHANGED <<fn_args, fn_local, Pipeline>>

NextGross == GrossCall
SpecGross == InitGross /\ [][NextGross]_vars

\* the queues of the data on the initiative's target channels
TargetQueues ==
    SelectSeq(annual_queues(fn_args.params),
              LAMBDA q : q.channel \in fn_args.initiative.channels)
VolumeFields == {"gross_fte", "gross_contacts", "gross_seconds", "gross_saving",
                 "gross_fte_migrated"}

\* C21: the gross impact of an initiative is what its lever's formula gives
\* on the queues of its target channels alone: queues on other channels add
\* nothing to gross contacts, seconds, FTE or saving, and an initiative whose
\* channels match no queue has gross contacts, seconds, FTE and saving 0
\* (location moves, which are sized on roles and not on volume, apart).
C21_TargetChannelsOnly ==
    (pc = "gross_returned") =>
        LET on_target == compute_gross_impact(fn_args.initiative, TargetQueues,
                                              Roles, fn_args.params)
        IN  /\ \A f \in VolumeFields : fn_value.gross[f] = on_target[f]
            /\ (TargetQueues = << >> /\ fn_args.initiative.lever # "cost_reduction") =>
                  \A f \in VolumeFields : fn_value.gross[f] = 0


RawTemplates ==
    { Entry("AI01", AI, "deflection", 300, 800, {"Voice", "Chat"}, {"Agent L1"}, 9, 612),
      Entry("AI02", AI, "aht_reduction", 200, 800, {"Voice", "Chat"},
            {"Agent L1", "Agent L2 / Specialist"}, 6, 500),
      Entry("AI23", AI, "deflection", 80, 850, {"Voice"}, {"Agent L1"}, 3, 455),
      Entry("AI06", AI, "escalation_reduction", 250, 900, {"Voice", "Chat"},
            {"Supervisor / Team Lead"}, 3, 388),
      Entry("LS08", LS, "shrinkage_reduction", 80, 700, {"Voice", "Chat"}, {"Agent L1"},
            9, 290) }

\* one list for every non-empty selection of them
RawLists ==
    UNION { { s \in [1..n -> RawTemplates] :
                \A i, j \in 1..n : i < j => s[i].matchScore > s[j].matchScore }
            : n \in 1..Cardinality(RawTemplates) }

InitRaw ==
    /\ params \in ParamsChoices
    /\ initiatives \in RawLists
    /\ pools = << >>
    /\ role_cum = ZeroLedger
    /\ role_impact = ZeroYearly(BaseParams.horizon)
    /\ audit_trail = << >>
    /\ pool_log = << >>
    /\ sorted_inits = << >>
    /\ pos = 1
    /\ yearly = << >>
    /\ pc = "ready"
    /\ runs = 0
    /\ previous = NoResult
    /\ calls = 0
    /\ ret = NoReturn
    /\ AuxIdle

\* between two invocations the data is reloaded with a blank acw cell, on
\* which enrich_intents raises
LoseEnrichment ==
    /\ pc = "done"
    /\ runs = 1
    /\ data_queues = Queues
    /\ data_queues' = BlankAcwQueues
    /\ UNCHANGED <<params, initiatives, pools, role_cum, role_impact, audit_trail, pool_log,
                   sorted_inits, pos, yearly, pc, runs, previous, calls, ret, results,
                   in_queues, stack, skip, sub, aliased, sub_results, executions, fn>>

NextRaw == LoseEnrichment \/ RunStart \/ Step \/ Finish
SpecRaw == InitRaw /\ [][NextRaw]_vars

\* the run that has just finished had to proceed on the raw queues, and the
\* run before it, on the same list and parameters, had enrichment
RawAfterEnriched ==
    /\ pc = "done"
    /\ runs = 2
    /\ enrich_raises(data_queues)
    /\ previous.valid
PooledLevers == {"deflection", "aht_reduction", "transfer_reduction"}

Debited(pool_key) == pools[pool_key].ceiling_fte - pools[pool_key].remaining_fte
\* what the consume_pool calls of the run granted from a pool
Granted(pool_key) ==
    SumOver([i \in SeqIdx(pool_log) |->
                IF lever_pool_map(pool_log[i].lever) = pool_key
                THEN pool_log[i].consumed_fte ELSE 0], SeqIdx(pool_log))
\* sum of _poolConsumed over the enabled initiatives on a lever
PoolConsumedOn(lever) ==
    SumOver([i \in SeqIdx(initiatives) |->
                IF initiatives[i].enabled /\ initiatives[i].lever = lever
                THEN initiatives[i]._poolConsumed ELSE 0], SeqIdx(initiatives))
\* the levers of the enabled initiatives that have a pool
PooledLeversOfRun ==
    { l \in { initiatives[i].lever :
                i \in { j \in SeqIdx(initiatives) : initiatives[j].enabled } } :
        lever_pool_map(l) \in DOMAIN pools }

DrainTemplates ==
    { Entry("AI06", AI, "escalation_reduction", 250, 900, {"Voice", "Chat"},
            {"Supervisor / Team Lead"}, 3, 388),
      Entry("OP08", OP, "escalation_reduction", 250, 800, {"Voice", "Chat"},
            {"Agent L2 / Specialist", "Agent L3 / Expert", "Supervisor / Team Lead"}, 6, 290),
      Entry("OP14", OP, "escalation_reduction", 150, 800, {"Voice"}, {"Agent L1"}, 6, 207),
      Entry("OP03", OP, "shrinkage_reduction", 150, 850, {"Voice", "Chat"},
            {"WFM Analyst", "Supervisor / Team Lead"}, 6, 455),
      Entry("OP04", OP, "shrinkage_reduction", 100, 900, {"Voice", "Chat"}, {"Agent L1"},
            3, 612),
      Entry("LS08", LS, "shrinkage_reduction", 80, 700, {"Voice", "Chat"}, {"Agent L1"},
            9, 731) }

\* one list for every non-empty selection of them
DrainLists ==
    UNION { { s \in [1..n -> DrainTemplates] :
                \A i, j \in 1..n : i < j => s[i].matchScore > s[j].matchScore }
            : n \in 1..Cardinality(DrainTemplates) }

InitDrain ==
    /\ params \in ParamsChoices
    /\ initiatives \in DrainLists
    /\ pools = << >>
    /\ role_cum = ZeroLedger
    /\ role_impact = ZeroYearly(BaseParams.horizon)
    /\ audit_trail = << >>
    /\ pool_log = << >>
    /\ sorted_inits = << >>
    /\ pos = 1
    /\ yearly = << >>
    /\ pc = "ready"
    /\ runs = 0
    /\ previous = NoResult
    /\ calls = 0
    /\ ret = NoReturn
    /\ AuxIdle

SpecDrain == InitDrain /\ [][Next]_vars

\* the iteration is about an initiative whose lever's pool has nothing left
OnExhaustedPool ==
    /\ Stepping
    /\ Headcount(Roles, Cur.roles) > 0
    /\ lever_pool_map(Cur.lever) \in DOMAIN pools
    /\ pools[lever_pool_map(Cur.lever)].remaining_fte = 0

\* C25: once a lever's pool has remaining_fte 0, every later initiative on
\* that lever in the run is granted consumed_fte 0 by consume_pool, gets net
\* FTE 0, and leaves every field of every pool as it was.
C25_ExhaustionAbsorbing ==
    [][OnExhaustedPool =>
          /\ pools' = pools
          /\ initiatives'[CurK]._fteImpact = 0
          /\ Len(pool_log') > Len(pool_log) =>
                pool_log'[Len(pool_log')].consumed_fte = 0
          /\ \A r \in RoleNames : role_cum'[r] = role_cum[r]]_vars

\* a pool was drawn down to nothing by one initiative and a later initiative
\* on the same lever was then granted nothing
C25_Witness ==
    \E i, j \in SeqIdx(pool_log) :
        /\ i < j
        /\ pool_log[i].lever = pool_log[j].lever
        /\ pool_log[i].consumed_fte > 0
        /\ pool_log[j].consumed_fte = 0
        /\ lever_pool_map(pool_log[j].lever) \in DOMAIN pools
        /\ pools[lever_pool_map(pool_log[j].lever)].remaining_fte = 0


\* ------------------------------------------------------- the capped flag
\* C26: the dict consume_pool returns has capped = True exactly when the FTE
\* it granted is less than the FTE requested; a request of 0 FTE and a
\* request granted in full are not capped.
C26_CappedIffGrantedLess ==
    ret.called => (ret.capped <=> ret.consumed_fte < ret.amount_fte)


\* ------------------------------------------------ toggles between two runs
\* POST of an enabled flag: the flag of one initiative of the list the
\* application keeps is set, and the waterfall is then recomputed on that list
ToggleEnabled ==
    /\ pc = "done"
    /\ runs < MaxRuns
    /\ \E k \in SeqIdx(initiatives) :
          initiatives' = [initiatives EXCEPT ![k].enabled = ~@]
    /\ previous' = RunResult
    /\ pc' = "ready"
    /\ UNCHANGED <<params, pools, role_cum, role_impact, audit_trail, pool_log,
                   sorted_inits, pos, yearly, runs, calls, ret, aux>>

NextToggle == ToggleEnabled \/ RunStart \/ Step \/ Finish
SpecToggle == InitRaw /\ [][NextToggle]_vars

\* C27: when an invocation has returned, every initiative of the list that
\* was disabled in it carries _fteImpact = 0, _annualSaving = 0 and
\* _poolConsumed = 0, whatever the earlier invocations on the same list left.
C27_DisabledCarryNothing ==
    (pc = "done") =>
        \A i \in SeqIdx(initiatives) :
            ~initiatives[i].enabled =>
                /\ initiatives[i]._fteImpact = 0
                /\ initiatives[i]._annualSaving = 0
                /\ initiatives[i]._poolConsumed = 0


\* ------------------------------------------- the same initiatives, reordered
\* Library entries of which two share layer and lever with different scores
\* (AI01, AI23) and two share the whole sort key (AI23, AI25).
ReorderTemplates ==
    { Entry("AI01", AI, "deflection", 300, 800, {"Voice", "Chat"}, {"Agent L1"}, 9, 612),
      Entry("AI02", AI, "aht_reduction", 200, 800, {"Voice", "Chat"},
            {"Agent L1", "Agent L2 / Specialist"}, 6, 500),
      Entry("AI23", AI, "deflection", 80, 850, {"Voice"}, {"Agent L1"}, 3, 455),
      Entry("AI25", AI, "deflection", 150, 800, {"App/Self-Service", "Chat"},
            {"Agent L1", "Knowledge Manager"}, 3, 455),
      Entry("LS08", LS, "shrinkage_reduction", 80, 700, {"Voice", "Chat"}, {"Agent L1"},
            9, 290) }

\* the list as the scoring leaves it: two to four of them, best score first
ByScore(s) == \A i, j \in SeqIdx(s) : i < j => s[i].matchScore >= s[j].matchScore

ReorderLists ==
    UNION { { s \in [1..n -> ReorderTemplates] :
                /\ \A i, j \in 1..n : i # j => s[i].id # s[j].id
                /\ ByScore(s) }
            : n \in 2..4 }

InitReorder ==
    /\ params \in ParamsChoices
    /\ initiatives \in ReorderLists
    /\ pools = << >>
    /\ role_cum = ZeroLedger
    /\ role_impact = ZeroYearly(BaseParams.horizon)
    /\ audit_trail = << >>
    /\ pool_log = << >>
    /\ sorted_inits = << >>
    /\ pos = 1
    /\ yearly = << >>
    /\ pc = "ready"
    /\ runs = 0
    /\ previous = NoResult
    /\ calls = 0
    /\ ret = NoReturn
    /\ AuxIdle

\* the caller keeps what the invocation returned and passes the same
\* initiative objects in another order: two entries of the list change
\* places before the next invocation
Reorder ==
    /\ pc = "done"
    /\ runs < MaxRuns
    /\ \E k, l \in SeqIdx(initiatives) :
          /\ k < l
          /\ initiatives' = [initiatives EXCEPT ![k] = initiatives[l],
                                                ![l] = initiatives[k]]
    /\ previous' = RunResult
    /\ pc' = "ready"
    /\ UNCHANGED <<params, pools, role_cum, role_impact, audit_trail, pool_log,
                   sorted_inits, pos, yearly, runs, calls, ret, aux>>

NextReorder == Reorder \/ RunStart \/ Step \/ Finish
SpecReorder == InitReorder /\ [][NextReorder]_vars

\* two initiatives with the same (layer, lever, score)
SameKey(a, b) ==
    /\ LayerRank(a) = LayerRank(b)
    /\ LeverRank(a) = LeverRank(b)
    /\ a.matchScore = b.matchScore

DistinctKeys(inits) ==
    \A i, j \in SeqIdx(inits) : i # j => ~SameKey(inits[i], inits[j])

\* ids in processing order
ProcessingSequence == [i \in SeqIdx(sorted_inits) |-> initiatives[sorted_inits[i]].id]

\* C28: an invocation on enabled initiatives with pairwise distinct (layer,
\* lever, score) keys gives, whatever the order of the input list, the same
\* processing sequence, the same net FTE for each initiative and the same
\* pool remainders as the invocation before it on the same initiatives; only
\* initiatives with equal keys are processed in the order of the input list.
C28_OrderIndependent ==
    (pc = "done" /\ previous.valid) =>
        /\ DistinctKeys(initiatives) =>
              /\ ProcessingSequence
                    = [i \in SeqIdx(previous.audit_trail) |-> previous.audit_trail[i].id]
              /\ audit_trail = previous.audit_trail
              /\ pools = previous.pools
              /\ role_cum = previous.role_cum
              /\ pool_log = previous.pool_log
              /\ yearly = previous.yearly
              /\ \A i \in SeqIdx(initiatives) :
                    \E j \in SeqIdx(audit_trail) :
                        /\ audit_trail[j].id = initiatives[i].id
                        /\ audit_trail[j].net_fte = initiatives[i]._fteImpact
        /\ \A i, j \in SeqIdx(sorted_inits) :
              (i < j /\ SameKey(initiatives[sorted_inits[i]], initiatives[sorted_inits[j]]))
                  => sorted_inits[i] < sorted_inits[j]

\* a second invocation has returned on a list that is no longer in score
\* order, its initiatives have distinct keys, two of them share layer and
\* lever, and two of them netted FTE
C28_Witness ==
    /\ pc = "done"
    /\ previous.valid
    /\ ~ByScore(initiatives)
    /\ DistinctKeys(initiatives)
    /\ \E i, j \in SeqIdx(initiatives) :
          /\ i < j
          /\ LayerRank(initiatives[i]) = LayerRank(initiatives[j])
          /\ LeverRank(initiatives[i]) = LeverRank(initiatives[j])
          /\ initiatives[i].matchScore < initiatives[j].matchScore
          /\ initiatives[i]._fteImpact > 0
          /\ initiatives[j]._fteImpact > 0


\* ------------------------------------- initiatives on roles without headcount
\* Library entries of which AI16 and AI12 name only roles the roster does
\* not have; these two are not yet enabled when the list is first run.
Off(e) == [e EXCEPT !.enabled = FALSE]

AbsentTemplates ==
    { Off(Entry("AI16", AI, "deflection", 50, 750, {"Voice", "Chat"},
                {"Agent L2 / Specialist"}, 6, 731)),
      Off(Entry("AI12", AI, "shrinkage_reduction", 100, 800, {"Voice", "Chat"},
                {"WFM Analyst"}, 6, 207)),
      Entry("AI01", AI, "deflection", 300, 800, {"Voice", "Chat"}, {"Agent L1"}, 9, 612),
      Entry("AI23", AI, "deflection", 80, 850, {"Voice"}, {"Agent L1"}, 3, 455),
      Entry("AI06", AI, "escalation_reduction", 250, 900, {"Voice", "Chat"},
            {"Supervisor / Team Lead"}, 3, 388),
      Entry("LS08", LS, "shrinkage_reduction", 80, 700, {"Voice", "Chat"}, {"Agent L1"},
            9, 290) }

\* lists of two to four of them, best score first
AbsentLists ==
    UNION { { s \in [1..n -> AbsentTemplates] :
                \A i, j \in 1..n : i < j => s[i].matchScore > s[j].matchScore }
            : n \in 2..4 }

InitAbsent ==
    /\ params \in ParamsChoices
    /\ initiatives \in AbsentLists
    /\ pools = << >>
    /\ role_cum = ZeroLedger
    /\ role_impact = ZeroYearly(BaseParams.horizon)
    /\ audit_trail = << >>
    /\ pool_log = << >>
    /\ sorted_inits = << >>
    /\ pos = 1
    /\ yearly = << >>
    /\ pc = "ready"
    /\ runs = 0
    /\ previous = NoResult
    /\ calls = 0
    /\ ret = NoReturn
    /\ AuxIdle

SpecAbsent == InitAbsent /\ [][NextToggle]_vars

\* no role of the roster is among the initiative's roles
OffRoster(init) == \A i \in SeqIdx(Roles) : Roles[i].role \notin init.roles

\* ids of the enabled initiatives that have a role on the roster
OnRosterIds == { initiatives[i].id : i \in { j \in SeqIdx(initiatives) :
                     initiatives[j].enabled /\ ~OffRoster(initiatives[j]) } }

\* C29: an enabled initiative whose roles have no headcount is given
\* _fteImpact = 0 and _annualSaving = 0 and leaves no audit entry, and the
\* invocation ends with the pools, the role ledgers, the consumptions and the
\* audit trail of the invocation before it whenever the two differ only in
\* such initiatives: the others are processed as if it were absent.
C29_ZeroHeadcountInert ==
    (pc = "done") =>
        /\ \A i \in SeqIdx(initiatives) :
              (initiatives[i].enabled /\ OffRoster(initiatives[i])) =>
                  /\ initiatives[i]._fteImpact = 0
                  /\ initiatives[i]._annualSaving = 0
                  /\ initiatives[i]._poolConsumed = 0
                  /\ \A j \in SeqIdx(audit_trail) : audit_trail[j].id # initiatives[i].id
        /\ (/\ previous.valid
            /\ OnRosterIds = { previous.audit_trail[j].id : j \in SeqIdx(previous.audit_trail) })
              => /\ audit_trail = previous.audit_trail
                 /\ pool_log = previous.pool_log
                 /\ pools = previous.pools
                 /\ role_cum = previous.role_cum
                 /\ role_impact = previous.role_impact
                 /\ yearly = previous.yearly

\* the second invocation has returned on a list in which an initiative
\* without headcount was switched on after the first, and an initiative
\* processed after it netted FTE
C29_Witness ==
    /\ pc = "done"
    /\ runs = 2
    /\ previous.valid
    /\ \E a, b \in SeqIdx(sorted_inits) :
          /\ a < b
          /\ OffRoster(initiatives[sorted_inits[a]])
          /\ initiatives[sorted_inits[a]]._mechanism = "No affected roles"
          /\ initiatives[sorted_inits[b]]._fteImpact > 0
          /\ initiatives[sorted_inits[b]].lever = initiatives[sorted_inits[a]].lever


\* ------------------------------------------------- the clamped yearly ledger
\* Library entries that share roles, so that the headroom one role leaves is
\* spent on another: lists of one to four of them, best score first.
ClampTemplates == { e \in INITIATIVE_LIBRARY : e.lever # "cost_reduction" /\ e.id # "AI12" }

ClampLists ==
    UNION { { s \in [1..n -> ClampTemplates] :
                \A i, j \in 1..n : i < j => s[i].matchScore > s[j].matchScore }
            : n \in 1..4 }

InitClamp ==
    /\ params \in ParamsChoices
    /\ initiatives \in ClampLists
    /\ pools = << >>
    /\ role_cum = ZeroLedger
    /\ role_impact = ZeroYearly(BaseParams.horizon)
    /\ audit_trail = << >>
    /\ pool_log = << >>
    /\ sorted_inits = << >>
    /\ pos = 1
    /\ yearly = << >>
    /\ pc = "ready"
    /\ runs = 0
    /\ previous = NoResult
    /\ calls = 0
    /\ ret = NoReturn
    /\ AuxIdle

SpecClamp == InitClamp /\ [][Next]_vars

\* ri['baseline'] * PER_ROLE_MAX_REDUCTION in the unit of the yearly ledger
YearlyCap(r) ==
    LET i == CHOOSE j \in SeqIdx(Roles) : Roles[j].role = r
    IN  Roles[i].headcount * PER_ROLE_MAX_REDUCTION * Hundredth * 10

\* reduction = sum(ri['yearly'][yr] for ri in role_impact.values())
TotalReduction(yr) == SumOver([r \in RoleNames |-> role_impact[r][yr]], RoleNames)

\* 'roleImpact' of the returned dict: the clamped yearly values, each
\* rounded to a whole number of FTE
roleImpact ==
    [r \in RoleNames |-> [yr \in DOMAIN role_impact[r] |->
        RoundDiv(role_impact[r][yr], FU * 100)]]

\* after the clamp the ledger the invocation keeps is within the limit for
\* every role and year, and so is the sum of a year over the roles
YearlyLedgerClamped ==
    (pc = "done") =>
        \A yr \in 1..params.horizon :
            /\ \A r \in RoleNames : role_impact[r][yr] <= YearlyCap(r)
            /\ TotalReduction(yr)
                  <= Headcount(Roles, AllRoleNames(Roles))
                     * PER_ROLE_MAX_REDUCTION * Hundredth * 10
            /\ yearly[yr].fteReduction = RoundDiv(TotalReduction(yr), FU * 100)

\* C30: in the per-role-per-year ledger an invocation returns, every role's
\* accumulated reduction of every year is at most 0.45 x the role's baseline
\* headcount, and the FTE reduction reported for a year is at most 0.45 x
\* the headcount of the whole roster.
C30_ReturnedLedgerWithinCap ==
    (pc = "done") =>
        \A yr \in 1..params.horizon :
            /\ \A r \in RoleNames : roleImpact[r][yr] * FU * 100 <= YearlyCap(r)
            /\ yearly[yr].fteReduction * FU * 100
                  <= Headcount(Roles, AllRoleNames(Roles))
                     * PER_ROLE_MAX_REDUCTION * Hundredth * 10

====
